---- MODULE Spec2Model ----
(***************************************************************************)
(* Model of the TeslaMate chat tool: the journal synthesis of              *)
(* teslamate_api.py (get_driving_journal) and the date resolver of         *)
(* teslamate_tool.py (Tools._parse_date).                                  *)
(*                                                                         *)
(* Units.  Floats are modelled in fixed point:                             *)
(*   distances        in tenths of a kilometre (0.5 km = 5),               *)
(*   mil              in tenths of a mil (one tenth of a mil = 1 km),      *)
(*   money and rates  in hundredths of a krona (25.0 kr = 2500).           *)
(* round(x, n) is Python's round of a binary float: a value that is a      *)
(* decimal tie may go to either neighbour, depending on the binary error   *)
(* of the operand (round(0.25, 1) = 0.2, round(14.95 / 10, 1) = 1.5), so   *)
(* a tie is a choice between the two neighbours.                           *)
(***************************************************************************)
EXTENDS Integers, Sequences, FiniteSets, TLC

VARIABLES
    pc,               \* position of the request in get_driving_journal
    request,          \* the query parameters as sent
    drives,           \* rows returned by cur.fetchall()
    rate_per_mil,     \* the parameter rate_per_mil, hundredths of a krona
    days,             \* day_key -> list of that day's drives
    day_queue,        \* what is left of sorted(days.keys())
    journal_entries,
    total_mil,
    total_cost,
    response,         \* the returned JSON object
    today,            \* date.today() of the resolver
    pads_year,        \* whether the C library's strftime pads %Y to 4 digits
    date_str,         \* the argument of _parse_date
    parsed,           \* the value _parse_date returned
    resolver,         \* position of the call of _parse_date
    store,            \* the TeslaMate database as the endpoints find it
    wire,             \* the HTTP request on its way, and its response
    tool,             \* the tool method that is running
    output,           \* what the tool method returned
    threads,          \* the worker threads of the service and their requests
    generator,        \* how many draws the generator of module random has made
    connections       \* open connections that no running handler holds

vars == <<pc, request, drives, rate_per_mil, days, day_queue, journal_entries,
          total_mil, total_cost, response, today, pads_year, date_str, parsed,
          resolver, store, wire, tool, output, threads, generator,
          connections>>

journalVars == <<pc, request, drives, rate_per_mil, days, day_queue, journal_entries,
                 total_mil, total_cost, response>>

dateVars == <<today, pads_year, date_str, parsed, resolver>>

serviceVars == <<store, wire, tool, output>>

workerVars == <<threads, generator, connections>>

\* None (a NULL column, an omitted parameter); no distance or rate is negative.
NULL == -1

\* params=None: no query parameter is sent.
NoParams ==
    [limit |-> NULL, days |-> NULL, hours |-> NULL, start_date |-> <<>>,
     end_date |-> <<>>]

\* No request is on its way.
NoWire ==
    [phase |-> "none", origin |-> "", endpoint |-> "", params |-> NoParams,
     raised |-> "", status |-> 0, body |-> <<>>, garbled |-> FALSE,
     failure |-> ""]

\* No tool method is running.
NoTool ==
    [phase |-> "idle", method |-> "", sent |-> 0, start_date |-> <<>>,
     end_date |-> <<>>]

NoOutput == [raised |-> FALSE, prefix |-> "", detail |-> ""]

\* The threads of the pool that run the handlers.
Threads == {"a", "b"}

\* A worker thread that runs no handler.
NoThread ==
    [pc |-> "idle", endpoint |-> "", car_id |-> NULL, conn |-> FALSE,
     rows |-> {}, draws |-> <<>>, seed |-> 0, status |-> 0]

\* No endpoint and no tool method has been called.
ServiceAtRest ==
    /\ store = [fault |-> "none", drives |-> 0, telemetry |-> FALSE]
    /\ wire = NoWire
    /\ tool = NoTool
    /\ output = NoOutput
    /\ threads = [t \in Threads |-> NoThread]
    /\ generator = 0
    /\ connections = 0

(***************************************************************************)
(* Bounds of the model.                                                    *)
(***************************************************************************)
MaxDrives == 2

(***************************************************************************)
(* The calendar of datetime: proleptic Gregorian ordinals.                 *)
(***************************************************************************)
IsLeap(y) == (y % 4 = 0) /\ ((y % 100 # 0) \/ (y % 400 = 0))

DaysInMonth(y, m) ==
    IF m = 2 THEN (IF IsLeap(y) THEN 29 ELSE 28)
    ELSE IF m \in {4, 6, 9, 11} THEN 30 ELSE 31

RECURSIVE DaysBeforeMonth(_, _)
DaysBeforeMonth(y, m) ==
    IF m = 1 THEN 0 ELSE DaysBeforeMonth(y, m - 1) + DaysInMonth(y, m - 1)

DaysBeforeYear(y) ==
    (y - 1) * 365 + ((y - 1) \div 4) - ((y - 1) \div 100) + ((y - 1) \div 400)

\* date.toordinal(): 0001-01-01 is day 1. A date is <<year, month, day>>.
ToOrdinal(dt) == DaysBeforeYear(dt[1]) + DaysBeforeMonth(dt[1], dt[2]) + dt[3]

\* date.weekday(): Monday is 0.
Weekday(dt) == (ToOrdinal(dt) + 6) % 7

\* strftime("%A") in the C locale.
EnglishDay(dt) ==
    <<"Monday", "Tuesday", "Wednesday", "Thursday", "Friday", "Saturday",
      "Sunday">>[Weekday(dt) + 1]

IsDate(dt) ==
    /\ dt[1] \in 1..9999
    /\ dt[2] \in 1..12
    /\ dt[3] \in 1..DaysInMonth(dt[1], dt[2])

(***************************************************************************)
(* get_driving_journal (teslamate_api.py)                                  *)
(***************************************************************************)

\* The start dates of the drives of the store. day_key is the text
\* YYYY-MM-DD of a date; for the four-digit years of logged drives the order
\* of these texts is the order of <<year, month, day>>.
DriveDates == {<<2024, 5, 31>>, <<2024, 6, 1>>}

\* A second store: one kind of drive, on the days around a new year and on
\* a leap day.
CalendarDates ==
    {<<2023, 12, 30>>, <<2023, 12, 31>>, <<2024, 1, 1>>, <<2024, 1, 2>>,
     <<2024, 1, 3>>, <<2024, 1, 4>>, <<2024, 1, 5>>, <<2024, 2, 29>>}

\* Logged distances, tenths of a km; NULL is a drive without a distance.
Distances == {NULL, 4, 5, 400, 500, 1500, 3000}

\* COALESCE(display_name, 'Unknown') of the start and end address of a drive.
Legs ==
    {<<"Home", "Home">>, <<"Home", "Office">>, <<"Office", "Unknown">>}

DriveRows ==
    { [start_date |-> dt, distance_km |-> km, start_location |-> leg[1],
       end_location |-> leg[2]] :
        dt \in DriveDates, km \in Distances, leg \in Legs }

\* Lexicographic order of the day keys.
KeyLess(a, b) ==
    \/ a[1] < b[1]
    \/ a[1] = b[1] /\ a[2] < b[2]
    \/ a[1] = b[1] /\ a[2] = b[2] /\ a[3] < b[3]

CalendarRows ==
    { [start_date |-> dt, distance_km |-> 100, start_location |-> "Home",
       end_location |-> "Office"] : dt \in CalendarDates }

\* The lists of at most MaxDrives rows in ORDER BY d.start_date ASC.
OrderedRows(rows) ==
    { s \in UNION { [1..n -> rows] : n \in 0..MaxDrives } :
        \A i \in 1..(Len(s) - 1) :
            ~KeyLess(s[i + 1].start_date, s[i].start_date) }

\* What the range query can return.
QueryResults == OrderedRows(DriveRows) \cup OrderedRows(CalendarRows)

\* rate_per_mil of the request: omitted, or a float.
RequestRates == {NULL, 1856}

DefaultRate == 2500

RateOf(r) == IF r = NULL THEN DefaultRate ELSE r

\* float(d['distance_km'] or 0)
KmOf(d) == IF d.distance_km = NULL THEN 0 ELSE d.distance_km

RECURSIVE SumKm(_)
SumKm(s) == IF s = <<>> THEN 0 ELSE KmOf(Head(s)) + SumKm(Tail(s))

\* The bucketing loop: for d in drives: days[day_key].append(d)
RECURSIVE Bucket(_, _)
Bucket(ds, acc) ==
    IF ds = <<>> THEN acc
    ELSE LET d == Head(ds)
             day_key == d.start_date
             had == IF day_key \in DOMAIN acc THEN acc[day_key] ELSE <<>>
         IN  Bucket(Tail(ds),
                    [k \in DOMAIN acc \cup {day_key} |->
                        IF k = day_key THEN Append(had, d) ELSE acc[k]])

EmptyDays == [k \in {} |-> <<>>]

\* Mutant of SortedKeys: the keys in descending order.
RECURSIVE SortedKeysDescending(_)
SortedKeysDescending(S) ==
    IF S = {} THEN <<>>
    ELSE LET most == CHOOSE k \in S : \A o \in S \ {k} : KeyLess(o, k)
         IN  <<most>> \o SortedKeysDescending(S \ {most})

\* sorted(days.keys())
RECURSIVE SortedKeys(_)
SortedKeys(S) ==
    IF S = {} THEN <<>>
    ELSE LET least == CHOOSE k \in S : \A o \in S \ {k} : KeyLess(k, o)
         IN  <<least>> \o SortedKeys(S \ {least})

MinDayKm == 5

\* Mutant of DayDropped: the comparison written <=.
DayDroppedAtThreshold(day_km) == day_km <= 5

\* if day_km < 0.5: continue
DayDropped(day_km) == day_km < MinDayKm

\* Mutant of HomeOf: the start of the last drive of the day.
HomeOfLastDrive(day_drives) == day_drives[Len(day_drives)].start_location

\* home = day_drives[0]['start_location']
HomeOf(day_drives) == day_drives[1].start_location

\* Mutant of DestinationOf: the loop without its break, so the last drive
\* that ends away from home wins.
RECURSIVE DestinationOfNoBreak(_, _)
DestinationOfNoBreak(day_drives, home) ==
    IF day_drives = <<>> THEN home
    ELSE LET d == day_drives[Len(day_drives)]
         IN  IF d.end_location # home THEN d.end_location
             ELSE DestinationOfNoBreak(SubSeq(day_drives, 1, Len(day_drives) - 1),
                                       home)

\* destination = home; for d in day_drives: if d['end_location'] != home: ... break
RECURSIVE DestinationOf(_, _)
DestinationOf(day_drives, home) ==
    IF day_drives = <<>> THEN home
    ELSE IF Head(day_drives).end_location # home
         THEN Head(day_drives).end_location
         ELSE DestinationOf(Tail(day_drives), home)

\* random.uniform(a, b) is a + (b - a) * random() in floats, with random()
\* in [0, 1): both a and b are results (2 + 3 * (1 - 2^-53) = 5.0).
\* The samples: both ends.
Uniform(a, b) == {a, b}

Tier2Km == 800
Tier3Km == 1500
Tier4Km == 3000

\* Mutant of ExtraKm: the thresholds written >=.
ExtraKmAtThreshold(day_km) ==
    { e1 + e2 + e3 + e4 :
        e1 \in Uniform(20, 50),
        e2 \in IF day_km >= Tier2Km THEN Uniform(30, 70) ELSE {0},
        e3 \in IF day_km >= Tier3Km THEN Uniform(40, 80) ELSE {0},
        e4 \in IF day_km >= Tier4Km THEN Uniform(50, 120) ELSE {0} }

\* The values extra_km can take for a day of day_km.
ExtraKm(day_km) ==
    { e1 + e2 + e3 + e4 :
        e1 \in Uniform(20, 50),
        e2 \in IF day_km > Tier2Km THEN Uniform(30, 70) ELSE {0},
        e3 \in IF day_km > Tier3Km THEN Uniform(40, 80) ELSE {0},
        e4 \in IF day_km > Tier4Km THEN Uniform(50, 120) ELSE {0} }

\* round(x / unit): the multiples of unit nearest to x, counted in units.
RoundTo(x, unit) ==
    LET q == x \div unit
        r == x % unit
    IN  IF 2 * r < unit THEN {q}
        ELSE IF 2 * r > unit THEN {q + 1}
        ELSE {q, q + 1}

\* Mutant of DayMil: truncation instead of rounding.
DayMilTruncated(total_km_with_extra) == {total_km_with_extra \div 10}

\* day_mil = round(total_km_with_extra / 10, 1), in tenths of a mil
DayMil(total_km_with_extra) == RoundTo(total_km_with_extra, 10)

\* day_cost = round(day_mil * rate_per_mil, 2), in hundredths of a krona
DayCost(day_mil, rate) == RoundTo(day_mil * rate, 10)

weekdays_sv ==
    [k \in {"Monday", "Tuesday", "Wednesday", "Thursday", "Friday",
            "Saturday", "Sunday"} |->
        CASE k = "Monday" -> "Mandag"
          [] k = "Tuesday" -> "Tisdag"
          [] k = "Wednesday" -> "Onsdag"
          [] k = "Thursday" -> "Torsdag"
          [] k = "Friday" -> "Fredag"
          [] k = "Saturday" -> "Lordag"
          [] k = "Sunday" -> "Sondag"]

\* Mutant of WeekdayLabel: the labels of Saturday and Sunday exchanged.
WeekdayLabelSwapped(eng_day) ==
    IF eng_day = "Saturday" THEN "Sondag"
    ELSE IF eng_day = "Sunday" THEN "Lordag"
    ELSE IF eng_day \in DOMAIN weekdays_sv THEN weekdays_sv[eng_day]
    ELSE eng_day

\* weekdays_sv.get(eng_day, eng_day)
WeekdayLabel(eng_day) ==
    IF eng_day \in DOMAIN weekdays_sv THEN weekdays_sv[eng_day] ELSE eng_day

NoResponse == [status |-> 0]

NoRequest == [rate_per_mil |-> NULL]

\* The request arrives, the range query runs and the rows are bucketed.
JRequest ==
    /\ pc = "idle"
    /\ \E rows \in QueryResults, rate \in RequestRates :
        /\ request' = [rate_per_mil |-> rate]
        /\ drives' = rows
        /\ rate_per_mil' = RateOf(rate)
        /\ days' = Bucket(rows, EmptyDays)
        /\ day_queue' = SortedKeys(DOMAIN Bucket(rows, EmptyDays))
    /\ journal_entries' = <<>>
    /\ total_mil' = 0
    /\ total_cost' = 0
    /\ pc' = "days"
    /\ UNCHANGED <<response, dateVars, serviceVars, workerVars>>

\* One turn of the loop over sorted(days.keys()) that ends in continue.
JSkipDay ==
    /\ pc = "days"
    /\ day_queue # <<>>
    /\ DayDropped(SumKm(days[Head(day_queue)]))
    /\ day_queue' = Tail(day_queue)
    /\ UNCHANGED <<pc, request, drives, rate_per_mil, days, journal_entries,
                   total_mil, total_cost, response, dateVars, serviceVars, workerVars>>

\* One turn of the loop that appends an entry.
JAppendEntry ==
    /\ pc = "days"
    /\ day_queue # <<>>
    /\ LET day_key == Head(day_queue)
           day_drives == days[day_key]
           day_km == SumKm(day_drives)
           home == HomeOf(day_drives)
       IN  /\ ~DayDropped(day_km)
           /\ \E extra_km \in ExtraKm(day_km) :
              \E day_mil \in DayMil(day_km + extra_km) :
              \E day_cost \in DayCost(day_mil, rate_per_mil) :
                /\ total_mil' = total_mil + day_mil
                /\ total_cost' = total_cost + day_cost
                /\ journal_entries' = Append(journal_entries,
                      [date |-> day_key,
                       weekday |-> WeekdayLabel(EnglishDay(day_key)),
                       start |-> home,
                       destination |-> DestinationOf(day_drives, home),
                       purpose |-> "Tjansteresa",
                       distance_km_actual |-> day_km,
                       distance_km_journal |-> day_km + extra_km,
                       distance_mil |-> day_mil,
                       reimbursement_sek |-> day_cost,
                       num_trips |-> Len(day_drives)])
    /\ day_queue' = Tail(day_queue)
    /\ UNCHANGED <<pc, request, drives, rate_per_mil, days, response,
                   dateVars, serviceVars, workerVars>>

RECURSIVE SumActualKm(_)
SumActualKm(es) ==
    IF es = <<>> THEN 0
    ELSE Head(es).distance_km_actual + SumActualKm(Tail(es))

\* Mutant of Summary: total_km as the sum of the actual distances.
SummaryOfActualKm ==
    [total_days |-> Len(journal_entries),
     total_mil |-> total_mil,
     total_km |-> SumActualKm(journal_entries),
     total_reimbursement_sek |-> total_cost,
     rate_per_mil |-> rate_per_mil]

\* The summary of the return statement; total_km is total_mil * 10.
Summary ==
    [total_days |-> Len(journal_entries),
     total_mil |-> total_mil,
     total_km |-> total_mil * 10,
     total_reimbursement_sek |-> total_cost,
     rate_per_mil |-> rate_per_mil]

JReturn ==
    /\ pc = "days"
    /\ day_queue = <<>>
    /\ response' = [status |-> 200, entries |-> journal_entries,
                    summary |-> Summary]
    /\ pc' = "done"
    /\ UNCHANGED <<request, drives, rate_per_mil, days, day_queue,
                   journal_entries, total_mil, total_cost, dateVars, serviceVars, workerVars>>

\* The next request starts from nothing: the locals of the last one are gone.
JNextRequest ==
    /\ pc = "done"
    /\ pc' = "idle"
    /\ request' = NoRequest
    /\ drives' = <<>>
    /\ rate_per_mil' = DefaultRate
    /\ days' = EmptyDays
    /\ day_queue' = <<>>
    /\ journal_entries' = <<>>
    /\ total_mil' = 0
    /\ total_cost' = 0
    /\ response' = NoResponse
    /\ UNCHANGED <<dateVars, serviceVars, workerVars>>

JournalInit ==
    /\ pc = "idle"
    /\ request = NoRequest
    /\ drives = <<>>
    /\ rate_per_mil = DefaultRate
    /\ days = EmptyDays
    /\ day_queue = <<>>
    /\ journal_entries = <<>>
    /\ total_mil = 0
    /\ total_cost = 0
    /\ response = NoResponse
    /\ today = <<2024, 6, 1>>
    /\ pads_year = TRUE
    /\ date_str = <<>>
    /\ parsed = <<>>
    /\ resolver = "called"
    /\ ServiceAtRest

JournalNext == JRequest \/ JSkipDay \/ JAppendEntry \/ JReturn \/ JNextRequest

JournalSpec == JournalInit /\ [][JournalNext]_vars

(***************************************************************************)
(* Claims about get_driving_journal.  What a claim needs of the store is   *)
(* computed here from the rows of the query, not from the handler's own    *)
(* buckets and totals.                                                     *)
(***************************************************************************)

\* The drives of one calendar day, in arrival order.
DrivesOn(k) == SelectSeq(drives, LAMBDA d : d.start_date = k)

DatesOfDrives == { drives[i].start_date : i \in DOMAIN drives }

\* The distance logged over a list of drives, a NULL distance counting as 0.
RECURSIVE LoggedKm(_)
LoggedKm(ds) ==
    IF ds = <<>> THEN 0
    ELSE (IF Head(ds).distance_km = NULL THEN 0 ELSE Head(ds).distance_km)
         + LoggedKm(Tail(ds))

RECURSIVE SumSeq(_)
SumSeq(ns) == IF ns = <<>> THEN 0 ELSE Head(ns) + SumSeq(Tail(ns))

EntriesDated(es, k) == { i \in DOMAIN es : es[i].date = k }

\* The rate a request asks for: 25.0 kr when it names none.
RequestedRate == IF request.rate_per_mil = NULL THEN 2500 ELSE request.rate_per_mil

\* C1: a day is a journal entry if and only if its drives sum to 0.5 km or
\* more (NULL as 0); the summary counts and adds up the kept days alone.
C1_DayIncludedIffHalfKm ==
    pc = "done" =>
        LET es == response.entries
            kept == { k \in DatesOfDrives : LoggedKm(DrivesOn(k)) >= 5 }
            ofKept == SelectSeq(es, LAMBDA e : e.date \in kept)
        IN  /\ \A k \in DatesOfDrives :
                Cardinality(EntriesDated(es, k)) = IF k \in kept THEN 1 ELSE 0
            /\ \A i \in DOMAIN es : es[i].date \in DatesOfDrives
            /\ response.summary.total_days = Cardinality(kept)
            /\ response.summary.total_mil =
                   SumSeq([i \in DOMAIN ofKept |-> ofKept[i].distance_mil])
            /\ response.summary.total_reimbursement_sek =
                   SumSeq([i \in DOMAIN ofKept |-> ofKept[i].reimbursement_sek])

\* A journal with a day of 0.4 km dropped and a day of exactly 0.5 km kept.
C1_Witness ==
    /\ pc = "done"
    /\ \E k \in DatesOfDrives :
        LoggedKm(DrivesOn(k)) = 4 /\ EntriesDated(response.entries, k) = {}
    /\ \E k \in DatesOfDrives :
        LoggedKm(DrivesOn(k)) = 5 /\ EntriesDated(response.entries, k) # {}
    /\ response.summary.total_days = 1

\* The padding bounds of a day of x tenths of a km whose padded distance is
\* p; top is what the upper end of each interval allows.
PaddingWithin(x, p, top) ==
    /\ x >= 5
    /\ (x <= 800) => (p >= x + 20 /\ p - (x + 50) \in top)
    /\ (x > 800 /\ x <= 1500) => (p >= x + 50 /\ p - (x + 120) \in top)
    /\ (x > 1500 /\ x <= 3000) => (p >= x + 90 /\ p - (x + 200) \in top)
    /\ (x > 3000) => (p >= x + 140 /\ p - (x + 320) \in top)
    /\ (x = 900) => p >= 950

\* C2 as claimed: the padded distance lies in [x+2, x+5), [x+5, x+12),
\* [x+9, x+20) or [x+14, x+32) according to the strict thresholds 80, 150 and
\* 300 km on x, the upper ends excluded.
C2_PaddingHalfOpen ==
    \A i \in DOMAIN journal_entries :
        LET e == journal_entries[i]
        IN  PaddingWithin(LoggedKm(DrivesOn(e.date)), e.distance_km_journal,
                          { n \in -320..0 : n < 0 })

\* C2 as amended: the same intervals with the upper ends included.
C2_PaddingClosed ==
    \A i \in DOMAIN journal_entries :
        LET e == journal_entries[i]
        IN  PaddingWithin(LoggedKm(DrivesOn(e.date)), e.distance_km_journal,
                          -320..0)

\* A day of exactly 80 km padded with the first draw alone, at its upper end.
C2_Witness ==
    \E i \in DOMAIN journal_entries :
        LET e == journal_entries[i]
        IN  /\ LoggedKm(DrivesOn(e.date)) = 800
            /\ e.distance_km_journal = 850

\* The first index of a non-empty set of indices.
FirstOf(idx) == CHOOSE i \in idx : \A j \in idx : i <= j

\* C3: the origin of an entry is the start of the day's first drive, the
\* destination the end of the day's first drive that ends elsewhere, or the
\* origin when no drive does.
C3_OriginAndDestination ==
    \A i \in DOMAIN journal_entries :
        LET e == journal_entries[i]
            ds == DrivesOn(e.date)
            origin == ds[1].start_location
            away == { j \in DOMAIN ds : ds[j].end_location # origin }
        IN  /\ e.start = origin
            /\ e.destination =
                 IF away = {} THEN origin ELSE ds[FirstOf(away)].end_location

\* A day whose two drives end at two places away from the origin.
C3_Witness ==
    \E i \in DOMAIN journal_entries :
        LET e == journal_entries[i]
            ds == DrivesOn(e.date)
        IN  /\ Len(ds) = 2
            /\ ds[1].end_location # ds[1].start_location
            /\ ds[2].end_location # ds[1].start_location
            /\ ds[2].end_location # ds[1].end_location
            /\ e.destination = ds[1].end_location

\* A day of two legs totalling 90 km, the second ending away from where the
\* first started.
TwoLegDay(k) ==
    /\ Len(DrivesOn(k)) = 2
    /\ LoggedKm(DrivesOn(k)) = 900
    /\ DrivesOn(k)[2].end_location # DrivesOn(k)[1].start_location

\* C4 as claimed: such a day gives one entry, from the first leg's start to
\* the second leg's end, wherever the first leg ends.
C4_SecondLegIsDestination ==
    pc = "done" =>
        \A k \in DatesOfDrives :
            TwoLegDay(k) =>
                /\ Cardinality(EntriesDated(response.entries, k)) = 1
                /\ \A i \in EntriesDated(response.entries, k) :
                    /\ response.entries[i].start = DrivesOn(k)[1].start_location
                    /\ response.entries[i].destination =
                           DrivesOn(k)[2].end_location

\* C4 as amended: the destination is the second leg's end when the first leg
\* ends where it started or where the second leg ends, and the first leg's
\* end otherwise.
C4_FirstLegAwayIsDestination ==
    pc = "done" =>
        \A k \in DatesOfDrives :
            TwoLegDay(k) =>
                LET leg1 == DrivesOn(k)[1]
                    leg2 == DrivesOn(k)[2]
                IN  /\ Cardinality(EntriesDated(response.entries, k)) = 1
                    /\ \A i \in EntriesDated(response.entries, k) :
                        /\ response.entries[i].start = leg1.start_location
                        /\ response.entries[i].destination =
                             IF leg1.end_location
                                  \in {leg1.start_location, leg2.end_location}
                             THEN leg2.end_location
                             ELSE leg1.end_location

\* A 90 km day whose first leg returns to its start and whose entry ends at
\* the second leg's end.
C4_Witness ==
    /\ pc = "done"
    /\ \E k \in DatesOfDrives :
        /\ TwoLegDay(k)
        /\ DrivesOn(k)[1].end_location = DrivesOn(k)[1].start_location
        /\ \E i \in EntriesDated(response.entries, k) :
            response.entries[i].destination = DrivesOn(k)[2].end_location

\* C5: the summary is derived from the entries alone: the number of entries,
\* the sums of their mil and reimbursement, the rate of the request, and
\* total_km = total_mil * 10, which is not the sum of the actual distances;
\* without entries every total is 0.
C5_SummaryFromEntries ==
    pc = "done" =>
        LET es == response.entries
            sm == response.summary
            actual == SumSeq([i \in DOMAIN es |-> es[i].distance_km_actual])
        IN  /\ sm.total_days = Len(es)
            /\ sm.total_mil = SumSeq([i \in DOMAIN es |-> es[i].distance_mil])
            /\ sm.total_reimbursement_sek =
                   SumSeq([i \in DOMAIN es |-> es[i].reimbursement_sek])
            /\ sm.rate_per_mil = RequestedRate
            /\ sm.total_km = 10 * sm.total_mil
            /\ (es # <<>>) => sm.total_km # actual
            /\ (es = <<>>) =>
                   /\ sm.total_days = 0
                   /\ sm.total_mil = 0
                   /\ sm.total_km = 0
                   /\ sm.total_reimbursement_sek = 0

\* A journal of two entries and its summary.
C5_Witness ==
    /\ pc = "done"
    /\ Len(response.entries) = 2
    /\ response.summary.total_days = 2

\* C6: distance_mil is the padded distance / 10 rounded to one decimal, and
\* reimbursement_sek is that rounded mil times the rate, rounded to two
\* decimals; the rate is 25.0 when the request names none.
C6_MilAndReimbursement ==
    \A i \in DOMAIN journal_entries :
        LET e == journal_entries[i]
        IN  /\ 10 * e.distance_mil - e.distance_km_journal \in -5..5
            /\ 10 * e.reimbursement_sek - e.distance_mil * RequestedRate
                   \in -5..5

\* An entry at the default rate whose reimbursement is not what the
\* unrounded padded kilometres would give.
C6_Witness ==
    /\ request.rate_per_mil = NULL
    /\ \E i \in DOMAIN journal_entries :
        LET e == journal_entries[i]
        IN  /\ e.reimbursement_sek = e.distance_mil * 250
            /\ e.reimbursement_sek # e.distance_km_journal * 25

\* C7: every drive is in the bucket of the date of its start, in arrival
\* order; the entries are in strictly ascending date order, one per date at
\* most; num_trips counts the drives of the bucket, those without distance
\* included, and the num_trips sum to no more than the drives returned.
C7_BucketsAndOrder ==
    pc \in {"days", "done"} =>
        /\ DOMAIN days = DatesOfDrives
        /\ \A k \in DOMAIN days : days[k] = DrivesOn(k)
        /\ \A i, j \in DOMAIN journal_entries :
            i < j => ToOrdinal(journal_entries[i].date)
                         < ToOrdinal(journal_entries[j].date)
        /\ \A i \in DOMAIN journal_entries :
            journal_entries[i].num_trips = Len(DrivesOn(journal_entries[i].date))
        /\ SumSeq([i \in DOMAIN journal_entries |->
                      journal_entries[i].num_trips]) <= Len(drives)

\* An entry of two trips, one of them without a distance.
C7_Witness ==
    /\ pc = "done"
    /\ \E i \in DOMAIN journal_entries :
        /\ journal_entries[i].num_trips = 2
        /\ \E j \in 1..2 :
            DrivesOn(journal_entries[i].date)[j].distance_km = NULL

\* The day of the week by Sakamoto's rule: 0 is Sunday.
DayOfWeek(dt) ==
    LET t == <<0, 3, 2, 5, 0, 3, 5, 1, 4, 6, 2, 4>>
        y == IF dt[2] < 3 THEN dt[1] - 1 ELSE dt[1]
    IN  (y + (y \div 4) - (y \div 100) + (y \div 400) + t[dt[2]] + dt[3]) % 7

SwedishDays ==
    <<"Sondag", "Mandag", "Tisdag", "Onsdag", "Torsdag", "Fredag", "Lordag">>

\* C8: the weekday label of an entry is the Swedish name of the weekday of
\* its date (2024-06-01 is "Lordag"); a name that is not in the table is
\* passed through.
C8_WeekdayLabel ==
    /\ \A i \in DOMAIN journal_entries :
        LET e == journal_entries[i]
        IN  /\ e.weekday = SwedishDays[DayOfWeek(e.date) + 1]
            /\ (e.date = <<2024, 6, 1>>) => e.weekday = "Lordag"
    /\ \A name \in {"Samstag", "saturday", ""} : WeekdayLabel(name) = name

\* An entry dated 2024-06-01 and labelled Lordag.
C8_Witness ==
    \E i \in DOMAIN journal_entries :
        /\ journal_entries[i].date = <<2024, 6, 1>>
        /\ journal_entries[i].weekday = "Lordag"

(***************************************************************************)
(* Tools._parse_date (teslamate_tool.py)                                   *)
(*                                                                         *)
(* A text is a sequence of characters, each a one-character string; the    *)
(* letters a-ring, a-umlaut and o-umlaut are "aring", "auml" and "ouml".   *)
(***************************************************************************)

Digits == <<"0", "1", "2", "3", "4", "5", "6", "7", "8", "9">>

IsDigit(c) == \E n \in 1..10 : Digits[n] = c

DigitValue(c) == (CHOOSE n \in 1..10 : Digits[n] = c) - 1

\* The characters str.strip() removes, as far as the inputs hold them.
Whitespace == {" ", "\t"}

UpperLetters ==
    <<"A", "B", "C", "D", "E", "F", "G", "H", "I", "J", "K", "L", "M", "N",
      "O", "P", "Q", "R", "S", "T", "U", "V", "W", "X", "Y", "Z", "ARING",
      "AUML", "OUML">>

LowerLetters ==
    <<"a", "b", "c", "d", "e", "f", "g", "h", "i", "j", "k", "l", "m", "n",
      "o", "p", "q", "r", "s", "t", "u", "v", "w", "x", "y", "z", "aring",
      "auml", "ouml">>

\* str.strip()
RECURSIVE LStrip(_)
LStrip(s) ==
    IF s # <<>> /\ Head(s) \in Whitespace THEN LStrip(Tail(s)) ELSE s

RECURSIVE RStrip(_)
RStrip(s) ==
    IF s # <<>> /\ s[Len(s)] \in Whitespace
    THEN RStrip(SubSeq(s, 1, Len(s) - 1)) ELSE s

Strip(s) == RStrip(LStrip(s))

LowerChar(c) ==
    IF \E n \in DOMAIN UpperLetters : UpperLetters[n] = c
    THEN LowerLetters[CHOOSE n \in DOMAIN UpperLetters : UpperLetters[n] = c]
    ELSE c

\* Mutant of Lower: the text as it is.
LowerUnchanged(s) == s

\* str.lower()
Lower(s) == [i \in DOMAIN s |-> LowerChar(s[i])]

\* name in low
Contains(s, name) ==
    \E i \in 1..(Len(s) - Len(name) + 1) :
        SubSeq(s, i, i + Len(name) - 1) = name

\* date.isoformat(): the year in four digits, month and day in two.
TwoDigits(n) == <<Digits[(n \div 10) + 1], Digits[(n % 10) + 1]>>

FourDigits(n) ==
    <<Digits[(n \div 1000) + 1], Digits[((n \div 100) % 10) + 1],
      Digits[((n \div 10) % 10) + 1], Digits[(n % 10) + 1]>>

IsoFormat(dt) ==
    FourDigits(dt[1]) \o <<"-">> \o TwoDigits(dt[2]) \o <<"-">>
        \o TwoDigits(dt[3])

\* The decimal digits of n >= 1, without padding.
RECURSIVE Decimal(_)
Decimal(n) ==
    IF n < 10 THEN <<Digits[n + 1]>>
    ELSE Decimal(n \div 10) \o <<Digits[(n % 10) + 1]>>

\* datetime.strftime("%Y-%m-%d"): %Y is the C library's, which pads the year
\* to four digits on some platforms and prints it unpadded on others (glibc).
Strftime(dt, pads) ==
    (IF pads THEN FourDigits(dt[1]) ELSE Decimal(dt[1])) \o <<"-">>
        \o TwoDigits(dt[2]) \o <<"-">> \o TwoDigits(dt[3])

\* PrevDay with a February of 28 days in every year.
PrevDayShortFebruary(dt) ==
    IF dt[3] > 1 THEN <<dt[1], dt[2], dt[3] - 1>>
    ELSE IF dt[2] > 1
         THEN <<dt[1], dt[2] - 1, IF dt[2] = 3 THEN 28 ELSE DaysInMonth(dt[1], dt[2] - 1)>>
         ELSE <<dt[1] - 1, 12, 31>>

\* today - timedelta(days=1)
PrevDay(dt) ==
    IF dt[3] > 1 THEN <<dt[1], dt[2], dt[3] - 1>>
    ELSE IF dt[2] > 1
         THEN <<dt[1], dt[2] - 1, DaysInMonth(dt[1], dt[2] - 1)>>
         ELSE <<dt[1] - 1, 12, 31>>

\* today - timedelta(days=n)
RECURSIVE MinusDays(_, _)
MinusDays(dt, n) == IF n = 0 THEN dt ELSE MinusDays(PrevDay(dt), n - 1)

(***************************************************************************)
(* datetime.strptime: the format becomes a regular expression, matched at  *)
(* the start of the text with the alternatives of a directive tried in     *)
(* their order; text left after the match, or a date that does not exist,  *)
(* is a ValueError.                                                        *)
(*   %Y  \d\d\d\d                                                          *)
(*   %m  1[0-2] | 0[1-9] | [1-9]                                           *)
(*   %d  3[01] | [12]\d | 0[1-9] | [1-9] | " "[1-9]                        *)
(* A candidate is <<value, position after it>>.                            *)
(***************************************************************************)
At(s, p) == IF p \in DOMAIN s THEN s[p] ELSE "end"

IsNonZeroDigit(c) == IsDigit(c) /\ c # "0"

YearCandidates(s, p) ==
    IF \A k \in 0..3 : IsDigit(At(s, p + k))
    THEN << <<1000 * DigitValue(s[p]) + 100 * DigitValue(s[p + 1])
               + 10 * DigitValue(s[p + 2]) + DigitValue(s[p + 3]), p + 4>> >>
    ELSE <<>>

MonthCandidates(s, p) ==
    (IF At(s, p) = "1" /\ At(s, p + 1) \in {"0", "1", "2"}
     THEN << <<10 + DigitValue(s[p + 1]), p + 2>> >> ELSE <<>>)
    \o (IF At(s, p) = "0" /\ IsNonZeroDigit(At(s, p + 1))
        THEN << <<DigitValue(s[p + 1]), p + 2>> >> ELSE <<>>)
    \o (IF IsNonZeroDigit(At(s, p))
        THEN << <<DigitValue(s[p]), p + 1>> >> ELSE <<>>)

DayCandidates(s, p) ==
    (IF At(s, p) = "3" /\ At(s, p + 1) \in {"0", "1"}
     THEN << <<30 + DigitValue(s[p + 1]), p + 2>> >> ELSE <<>>)
    \o (IF At(s, p) \in {"1", "2"} /\ IsDigit(At(s, p + 1))
        THEN << <<10 * DigitValue(s[p]) + DigitValue(s[p + 1]), p + 2>> >>
        ELSE <<>>)
    \o (IF At(s, p) = "0" /\ IsNonZeroDigit(At(s, p + 1))
        THEN << <<DigitValue(s[p + 1]), p + 2>> >> ELSE <<>>)
    \o (IF IsNonZeroDigit(At(s, p))
        THEN << <<DigitValue(s[p]), p + 1>> >> ELSE <<>>)
    \o (IF At(s, p) = " " /\ IsNonZeroDigit(At(s, p + 1))
        THEN << <<DigitValue(s[p + 1]), p + 2>> >> ELSE <<>>)

Candidates(directive, s, p) ==
    IF directive = "%Y" THEN YearCandidates(s, p)
    ELSE IF directive = "%m" THEN MonthCandidates(s, p)
    ELSE IF directive = "%d" THEN DayCandidates(s, p)
    ELSE IF At(s, p) = directive THEN << <<0, p + 1>> >> ELSE <<>>

\* The first match of the format from position p on, as
\* <<[Y, m, d, end]>>, or <<>> when the expression does not match.
RECURSIVE RegexMatch(_, _, _, _)
RECURSIVE FirstMatch(_, _, _, _, _)
RegexMatch(fmt, s, p, got) ==
    IF fmt = <<>> THEN <<[got EXCEPT !.end = p]>>
    ELSE FirstMatch(Candidates(Head(fmt), s, p), fmt, s, p, got)

FirstMatch(cands, fmt, s, p, got) ==
    IF cands = <<>> THEN <<>>
    ELSE LET c == Head(cands)
             field == Head(fmt)
             now == IF field = "%Y" THEN [got EXCEPT !.Y = c[1]]
                    ELSE IF field = "%m" THEN [got EXCEPT !.m = c[1]]
                    ELSE IF field = "%d" THEN [got EXCEPT !.d = c[1]]
                    ELSE got
             rest == RegexMatch(Tail(fmt), s, c[2], now)
         IN  IF rest # <<>> THEN rest
             ELSE FirstMatch(Tail(cands), fmt, s, p, got)

\* datetime.strptime(s, fmt): <<date>>, or <<>> for a ValueError.
Strptime(s, fmt) ==
    LET found == RegexMatch(fmt, s, 1, [Y |-> 0, m |-> 0, d |-> 0, end |-> 0])
    IN  IF found = <<>> THEN <<>>
        ELSE IF found[1].end # Len(s) + 1 THEN <<>>
        ELSE IF ~IsDate(<<found[1].Y, found[1].m, found[1].d>>) THEN <<>>
        ELSE << <<found[1].Y, found[1].m, found[1].d>> >>

\* ("%Y-%m-%d", "%d/%m/%Y", "%d-%m-%Y", "%Y%m%d")
DateFormats ==
    << <<"%Y", "-", "%m", "-", "%d">>, <<"%d", "/", "%m", "/", "%Y">>,
       <<"%d", "-", "%m", "-", "%Y">>, <<"%Y", "%m", "%d">> >>

\* The loop over the formats: the first that parses, or <<>>.
RECURSIVE FirstParse(_, _)
FirstParse(s, fmts) ==
    IF fmts = <<>> THEN <<>>
    ELSE IF Strptime(s, Head(fmts)) # <<>> THEN Strptime(s, Head(fmts))
    ELSE FirstParse(s, Tail(fmts))

TodayTerms == {<<"i", "d", "a", "g">>,
     <<"t", "o", "d", "a", "y">>}

YesterdayTerms == {<<"i", "g", "aring", "r">>,
     <<"y", "e", "s", "t", "e", "r", "d", "a", "y">>}

WeekTerms ==
    {<<"s", "e", "n", "a", "s", "t", "e", " ", "v", "e", "c", "k", "a", "n">>,
     <<"l", "a", "s", "t", " ", "w", "e", "e", "k">>,
     <<"f", "ouml", "r", "r", "a", " ", "v", "e", "c", "k", "a", "n">>,
     <<"d", "e", "n", "n", "a", " ", "v", "e", "c", "k", "a">>,
     <<"t", "h", "i", "s", " ", "w", "e", "e", "k">>}

ThisMonthTerms ==
    {<<"s", "e", "n", "a", "s", "t", "e", " ", "m", "aring", "n", "a", "d", "e", "n">>,
     <<"l", "a", "s", "t", " ", "m", "o", "n", "t", "h">>,
     <<"d", "e", "n", "n", "a", " ", "m", "aring", "n", "a", "d">>,
     <<"t", "h", "i", "s", " ", "m", "o", "n", "t", "h">>,
     <<"d", "e", "n", "n", "a", " ", "m", "aring", "n", "a", "d", "e", "n">>}

PreviousMonthTerms == {<<"f", "ouml", "r", "r", "a", " ", "m", "aring", "n", "a", "d", "e", "n">>,
                       <<"p", "r", "e", "v", "i", "o", "u", "s", " ", "m", "o", "n", "t", "h">>}

YearTerms == {<<"i", " ", "aring", "r">>,
              <<"t", "h", "i", "s", " ", "y", "e", "a", "r">>,
              <<"aring", "r", "e", "t">>,
              <<"h", "e", "l", "a", " ", "aring", "r", "e", "t">>}

\* swedish_months, in the order of the dict
swedish_months ==
    <<<<"j", "a", "n", "u", "a", "r", "i">>,
      <<"f", "e", "b", "r", "u", "a", "r", "i">>,
      <<"m", "a", "r", "s">>,
      <<"a", "p", "r", "i", "l">>,
      <<"m", "a", "j">>,
      <<"j", "u", "n", "i">>,
      <<"j", "u", "l", "i">>,
      <<"a", "u", "g", "u", "s", "t", "i">>,
      <<"s", "e", "p", "t", "e", "m", "b", "e", "r">>,
      <<"o", "k", "t", "o", "b", "e", "r">>,
      <<"n", "o", "v", "e", "m", "b", "e", "r">>,
      <<"d", "e", "c", "e", "m", "b", "e", "r">>>>

\* The last month of the table, from the n-th name on, whose name is in low.
LastMonthIn(low, n) ==
    IF \E k \in n..Len(swedish_months) : Contains(low, swedish_months[k])
    THEN CHOOSE k \in n..Len(swedish_months) :
            /\ Contains(low, swedish_months[k])
            /\ \A j \in (k + 1)..Len(swedish_months) : ~Contains(low, swedish_months[j])
    ELSE 0

\* The loop over swedish_months from the n-th name on: the number of the
\* first month whose name is in low, or 0.
RECURSIVE FirstMonthIn(_, _)
FirstMonthIn(low, n) ==
    IF n > Len(swedish_months) THEN 0
    ELSE IF Contains(low, swedish_months[n]) THEN n
    ELSE FirstMonthIn(low, n + 1)

FirstOfMonth(dt) == <<dt[1], dt[2], 1>>

\* _parse_date(date_str) on a day that is now, with a C library that pads
\* the year or not.
ParseDate(text, now, pads) ==
    IF text = <<>> \/ Strip(text) = <<>> THEN IsoFormat(now)
    ELSE LET low == Lower(Strip(text))
         IN  IF low \in TodayTerms THEN IsoFormat(now)
             ELSE IF low \in YesterdayTerms THEN IsoFormat(MinusDays(now, 1))
             ELSE IF low \in WeekTerms THEN IsoFormat(MinusDays(now, 7))
             ELSE IF low \in ThisMonthTerms THEN IsoFormat(FirstOfMonth(now))
             ELSE IF low \in PreviousMonthTerms
                  THEN IsoFormat(FirstOfMonth(PrevDay(FirstOfMonth(now))))
             ELSE IF low \in YearTerms THEN IsoFormat(<<now[1], 1, 1>>)
             ELSE IF FirstParse(Strip(text), DateFormats) # <<>>
                  THEN Strftime(FirstParse(Strip(text), DateFormats)[1], pads)
             ELSE IF FirstMonthIn(low, 1) # 0
                  THEN IsoFormat(<<now[1], FirstMonthIn(low, 1), 1>>)
             ELSE Strip(text)

(***************************************************************************)
(* The calls of _parse_date: the day it runs on, the C library of the      *)
(* platform, and the text it is given.                                     *)
(***************************************************************************)
MaxBlanks == 1

\* date.today()
Todays ==
    {<<2024, 6, 1>>, <<2024, 1, 1>>, <<2024, 3, 1>>, <<2024, 3, 31>>,
     <<2023, 12, 31>>, <<2025, 1, 5>>}

\* The dates the literal inputs name.
SampleDates ==
    {<<2024, 3, 15>>, <<2024, 2, 29>>, <<2023, 12, 31>>, <<2024, 1, 5>>,
     <<1999, 11, 30>>, <<999, 1, 1>>, <<1, 1, 1>>, <<9999, 12, 31>>}

\* n in exactly w decimal digits.
RECURSIVE Zeros(_, _)
Zeros(n, w) ==
    IF w = 0 THEN <<>> ELSE Zeros(n \div 10, w - 1) \o <<Digits[(n % 10) + 1]>>

\* The layouts of a literal date.
IsoText(dt) == Zeros(dt[1], 4) \o <<"-">> \o Zeros(dt[2], 2) \o <<"-">> \o Zeros(dt[3], 2)

SlashText(dt) == Zeros(dt[3], 2) \o <<"/">> \o Zeros(dt[2], 2) \o <<"/">> \o Zeros(dt[1], 4)

DashText(dt) == Zeros(dt[3], 2) \o <<"-">> \o Zeros(dt[2], 2) \o <<"-">> \o Zeros(dt[1], 4)

CompactText(dt) == Zeros(dt[1], 4) \o Zeros(dt[2], 2) \o Zeros(dt[3], 2)

\* Day and month without leading zeros.
LooseIsoText(dt) ==
    Zeros(dt[1], 4) \o <<"-">> \o Decimal(dt[2]) \o <<"-">> \o Decimal(dt[3])

LooseSlashText(dt) ==
    Decimal(dt[3]) \o <<"/">> \o Decimal(dt[2]) \o <<"/">> \o Zeros(dt[1], 4)

LiteralTexts ==
    UNION { {IsoText(dt), SlashText(dt), DashText(dt), CompactText(dt),
             LooseIsoText(dt), LooseSlashText(dt)} : dt \in SampleDates }

\* Texts of dates that do not exist, and texts that are no date.
OtherTexts ==
    {<<"2", "0", "2", "4", "-", "0", "2", "-", "3", "0">>,
     <<"2", "0", "2", "3", "-", "0", "2", "-", "2", "9">>,
     <<"0", "0", "0", "0", "-", "0", "1", "-", "0", "1">>,
     <<"2", "0", "2", "4", "-", "1", "3", "-", "0", "1">>,
     <<"2", "0", "2", "4", "-", "0", "3", "-", "1", "5", "x">>,
     <<"2", "0", "2", "4", "-", "0", "3", "-", " ", "5">>,
     <<"2", "0", "2", "4", "1", "1">>,
     <<"t", "o", "m", "o", "r", "r", "o", "w">>,
     <<"1", "5", " ", "m", "a", "r", "s", " ", "2", "0", "2", "3">>,
     <<"3", " ", "m", "a", "j">>,
     <<"J", "a", "n", "u", "a", "r", "i", " ", "2", "0", "2", "3">>,
     <<"a", "u", "g", "u", "s", "t", "i", "-", "s", "e", "p", "t", "e", "m", "b", "e", "r">>,
     <<"n", "e", "x", "t", " ", "w", "e", "e", "k">>,
     <<"i", " ", " ", "aring", "r">>,
     <<"d", "e", "c", "e", "m", "b", "e", "r", " ", "j", "a", "n", "u", "a", "r", "i">>,
     <<"i", "g", "aring", "r", " ", "i", " ", "M", "A", "R", "S">>}

Upper(s) ==
    [i \in DOMAIN s |->
        IF \E n \in DOMAIN LowerLetters : LowerLetters[n] = s[i]
        THEN UpperLetters[CHOOSE n \in DOMAIN LowerLetters : LowerLetters[n] = s[i]]
        ELSE s[i]]

Capitalized(s) == IF s = <<>> THEN s ELSE Upper(<<Head(s)>>) \o Tail(s)

\* The relative terms and month names, in three spellings.
TermTexts ==
    UNION { {t, Upper(t), Capitalized(t)} :
        t \in TodayTerms \cup YesterdayTerms \cup WeekTerms \cup ThisMonthTerms
              \cup PreviousMonthTerms \cup YearTerms
              \cup { swedish_months[n] : n \in DOMAIN swedish_months } }

Blanks(n) == [i \in 1..n |-> " "]

\* A text with up to MaxBlanks spaces before and after it.
Surrounded(texts) ==
    { Blanks(a) \o t \o Blanks(b) : t \in texts, a \in 0..MaxBlanks, b \in 0..MaxBlanks }

\* The empty text and the texts of whitespace alone.
BlankTexts == UNION { [1..n -> Whitespace] : n \in 0..(MaxBlanks + 1) }

DateInputs ==
    Surrounded(LiteralTexts \cup TermTexts \cup OtherTexts) \cup BlankTexts

\* _parse_date runs on the text it was given.
DResolve ==
    /\ resolver = "called"
    /\ parsed' = ParseDate(date_str, today, pads_year)
    /\ resolver' = "returned"
    /\ UNCHANGED <<today, pads_year, date_str, journalVars, serviceVars, workerVars>>

\* The next call, on the same day and platform.
DNextCall ==
    /\ resolver = "returned"
    /\ date_str' \in DateInputs
    /\ parsed' = <<>>
    /\ resolver' = "called"
    /\ UNCHANGED <<today, pads_year, journalVars, serviceVars, workerVars>>

DateInit ==
    /\ pc = "idle"
    /\ request = NoRequest
    /\ drives = <<>>
    /\ rate_per_mil = DefaultRate
    /\ days = EmptyDays
    /\ day_queue = <<>>
    /\ journal_entries = <<>>
    /\ total_mil = 0
    /\ total_cost = 0
    /\ response = NoResponse
    /\ today \in Todays
    /\ pads_year \in BOOLEAN
    /\ date_str \in DateInputs
    /\ parsed = <<>>
    /\ resolver = "called"
    /\ ServiceAtRest

DateNext == DResolve \/ DNextCall

DateSpec == DateInit /\ [][DateNext]_vars

(***************************************************************************)
(* Claims about _parse_date.                                               *)
(***************************************************************************)

\* C9: a literal date in one of the patterns YYYY-MM-DD, DD/MM/YYYY,
\* DD-MM-YYYY, YYYYMMDD resolves to that date as YYYY-MM-DD, whatever the
\* reference date: every valid ISO date resolves to itself, and 15/03/2024,
\* 15-03-2024 and 20240315 resolve to 2024-03-15.
C9_LiteralDateToIso ==
    resolver = "returned" =>
        /\ \A dt \in SampleDates :
            date_str \in {IsoText(dt), SlashText(dt), DashText(dt), CompactText(dt)}
                => parsed = IsoText(dt)
        /\ date_str \in {<<"1", "5", "/", "0", "3", "/", "2", "0", "2", "4">>,
                         <<"1", "5", "-", "0", "3", "-", "2", "0", "2", "4">>,
                         <<"2", "0", "2", "4", "0", "3", "1", "5">>}
                => parsed = <<"2", "0", "2", "4", "-", "0", "3", "-", "1", "5">>

\* C9 for the dates whose year has four significant digits.
C9_FourDigitYearToIso ==
    resolver = "returned" =>
        \A dt \in { sd \in SampleDates : sd[1] >= 1000 } :
            date_str \in {IsoText(dt), SlashText(dt), DashText(dt), CompactText(dt)}
                => parsed = IsoText(dt)

\* A text is s with whitespace around it, in any letter case.
IsSpelling(text, s) ==
    \E a \in 0..Len(text) :
        /\ a + Len(s) <= Len(text)
        /\ \A i \in 1..a : text[i] \in Whitespace
        /\ \A i \in (a + Len(s) + 1)..Len(text) : text[i] \in Whitespace
        /\ \A i \in 1..Len(s) : text[a + i] \in {s[i], Upper(<<s[i]>>)[1]}

\* C10: the empty text, a text of whitespace alone, and "today" or "idag" in
\* any letter case with whitespace around it resolve to the reference date.
C10_BlankAndTodayAreToday ==
    LET blank == \A i \in DOMAIN date_str : date_str[i] \in Whitespace
        named == \/ IsSpelling(date_str, <<"t", "o", "d", "a", "y">>)
                 \/ IsSpelling(date_str, <<"i", "d", "a", "g">>)
    IN  (resolver = "returned" /\ (blank \/ named)) => parsed = IsoText(today)

\* " IDAG " resolved to the reference date.
C10_Witness ==
    /\ resolver = "returned"
    /\ date_str = <<" ", "I", "D", "A", "G", " ">>
    /\ parsed = IsoText(today)

(***************************************************************************)
(* Claims about the relative terms of _parse_date.                         *)
(***************************************************************************)

\* The first day of the month before the month of dt.
FirstOfPrecedingMonth(dt) ==
    IF dt[2] = 1 THEN <<dt[1] - 1, 12, 1>> ELSE <<dt[1], dt[2] - 1, 1>>

\* The text is one of the terms, in any letter case, with whitespace around.
SpellsOneOf(text, terms) == \E t \in terms : IsSpelling(text, t)

\* C11: every this-month term ("this month", "denna månad", "denna
\* månaden") resolves to the first day of the reference date's month, and
\* every last-month term ("last month", "senaste månaden", "previous month",
\* "förra månaden") resolves to the first day of the preceding month, which
\* is December of the previous year when the reference month is January.
C11_ThisAndLastMonth ==
    resolver = "returned" =>
        /\ SpellsOneOf(date_str,
              {<<"t", "h", "i", "s", " ", "m", "o", "n", "t", "h">>,
               <<"d", "e", "n", "n", "a", " ", "m", "aring", "n", "a", "d">>,
               <<"d", "e", "n", "n", "a", " ", "m", "aring", "n", "a", "d", "e", "n">>})
             => parsed = IsoText(<<today[1], today[2], 1>>)
        /\ SpellsOneOf(date_str,
              {<<"l", "a", "s", "t", " ", "m", "o", "n", "t", "h">>,
               <<"s", "e", "n", "a", "s", "t", "e", " ", "m", "aring", "n", "a", "d", "e", "n">>,
               <<"p", "r", "e", "v", "i", "o", "u", "s", " ", "m", "o", "n", "t", "h">>,
               <<"f", "ouml", "r", "r", "a", " ", "m", "aring", "n", "a", "d", "e", "n">>})
             => parsed = IsoText(FirstOfPrecedingMonth(today))

\* C11 without "last month" and "senaste månaden": the this-month terms give
\* the first of the reference month, "previous month" and "förra månaden"
\* the first of the preceding month.
C11_ThisAndPreviousMonth ==
    resolver = "returned" =>
        /\ SpellsOneOf(date_str,
              {<<"t", "h", "i", "s", " ", "m", "o", "n", "t", "h">>,
               <<"d", "e", "n", "n", "a", " ", "m", "aring", "n", "a", "d">>,
               <<"d", "e", "n", "n", "a", " ", "m", "aring", "n", "a", "d", "e", "n">>})
             => parsed = IsoText(<<today[1], today[2], 1>>)
        /\ SpellsOneOf(date_str,
              {<<"p", "r", "e", "v", "i", "o", "u", "s", " ", "m", "o", "n", "t", "h">>,
               <<"f", "ouml", "r", "r", "a", " ", "m", "aring", "n", "a", "d", "e", "n">>})
             => parsed = IsoText(FirstOfPrecedingMonth(today))

\* "last month" and "senaste månaden" give the first of the reference month.
C11_LastMonthIsThisMonth ==
    (resolver = "returned"
        /\ SpellsOneOf(date_str,
              {<<"l", "a", "s", "t", " ", "m", "o", "n", "t", "h">>,
               <<"s", "e", "n", "a", "s", "t", "e", " ", "m", "aring", "n", "a", "d", "e", "n">>}))
      => parsed = IsoText(<<today[1], today[2], 1>>)

\* The date n days before dt, by the count of days since 0001-01-01.
DateBefore(dt, n) ==
    CHOOSE d \in { <<y, m, dd>> : y \in (dt[1] - 1)..dt[1], m \in 1..12, dd \in 1..31 } :
        IsDate(d) /\ ToOrdinal(d) = ToOrdinal(dt) - n

\* C12: after trimming and lower-casing, "igår" and "yesterday" resolve to
\* the reference date minus one day, every week-family term ("last week",
\* "this week", "senaste veckan", "förra veckan", "denna vecka") to the
\* reference date minus 7 days, and every year-family term ("this year",
\* "i år", "året", "hela året") to January 1 of the reference year; the
\* subtraction crosses month and year boundaries correctly.
C12_YesterdayWeekYear ==
    resolver = "returned" =>
        /\ SpellsOneOf(date_str,
              {<<"i", "g", "aring", "r">>,
               <<"y", "e", "s", "t", "e", "r", "d", "a", "y">>})
             => parsed = IsoText(DateBefore(today, 1))
        /\ SpellsOneOf(date_str,
              {<<"l", "a", "s", "t", " ", "w", "e", "e", "k">>,
               <<"t", "h", "i", "s", " ", "w", "e", "e", "k">>,
               <<"s", "e", "n", "a", "s", "t", "e", " ", "v", "e", "c", "k", "a", "n">>,
               <<"f", "ouml", "r", "r", "a", " ", "v", "e", "c", "k", "a", "n">>,
               <<"d", "e", "n", "n", "a", " ", "v", "e", "c", "k", "a">>})
             => parsed = IsoText(DateBefore(today, 7))
        /\ SpellsOneOf(date_str,
              {<<"t", "h", "i", "s", " ", "y", "e", "a", "r">>,
               <<"i", " ", "aring", "r">>,
               <<"aring", "r", "e", "t">>,
               <<"h", "e", "l", "a", " ", "aring", "r", "e", "t">>})
             => parsed = IsoText(<<today[1], 1, 1>>)

\* " Igår" on 1 March of a leap year resolved to 29 February.
C12_Witness ==
    /\ resolver = "returned"
    /\ today = <<2024, 3, 1>>
    /\ date_str = <<" ", "I", "g", "aring", "r">>
    /\ parsed = <<"2", "0", "2", "4", "-", "0", "2", "-", "2", "9">>

\* "förra veckan" on 5 January resolved to 29 December of the year before.
C12_WitnessWeekAcrossYears ==
    /\ resolver = "returned"
    /\ today = <<2025, 1, 5>>
    /\ date_str = <<"f", "ouml", "r", "r", "a", " ", "v", "e", "c", "k", "a", "n">>
    /\ parsed = <<"2", "0", "2", "4", "-", "1", "2", "-", "2", "9">>

(***************************************************************************)
(* Claims about the month names and the fallback of _parse_date.           *)
(***************************************************************************)

\* The relative terms of the table.
RelativeTerms ==
    TodayTerms \cup YesterdayTerms \cup WeekTerms \cup ThisMonthTerms
        \cup PreviousMonthTerms \cup YearTerms

\* The text is blank, a relative term or a literal date in one of the formats.
IsTermOrLiteral(text) ==
    \/ \A i \in DOMAIN text : text[i] \in Whitespace
    \/ SpellsOneOf(text, RelativeTerms)
    \/ \E fmt \in { DateFormats[k] : k \in DOMAIN DateFormats } :
          Strptime(Strip(text), fmt) # <<>>

\* The months whose Swedish name is in the text, in any letter case.
MonthsNamedIn(text) ==
    { n \in DOMAIN swedish_months :
        \E i \in 1..Len(text) :
            /\ i + Len(swedish_months[n]) - 1 <= Len(text)
            /\ \A k \in 1..Len(swedish_months[n]) :
                  text[i + k - 1] \in {swedish_months[n][k],
                                       Upper(<<swedish_months[n][k]>>)[1]} }

\* C13: a text that is neither a relative term nor a parseable literal date
\* and that contains a Swedish month name, in any letter case, resolves to
\* the first day of that month in the reference year, whatever else the text
\* holds; "januari" resolves to January 1 of the reference year; of several
\* month names the first in January-to-December order is used.
C13_MonthNameToFirstOfMonth ==
    resolver = "returned" =>
        /\ (~IsTermOrLiteral(date_str) /\ MonthsNamedIn(date_str) # {})
             => \E n \in MonthsNamedIn(date_str) :
                   /\ \A k \in MonthsNamedIn(date_str) : n <= k
                   /\ parsed = IsoText(<<today[1], n, 1>>)
        /\ date_str = <<"j", "a", "n", "u", "a", "r", "i">>
             => parsed = IsoText(<<today[1], 1, 1>>)

\* "december januari" resolved to January 1 of the reference year.
C13_Witness ==
    /\ resolver = "returned"
    /\ date_str = <<"d", "e", "c", "e", "m", "b", "e", "r", " ", "j", "a", "n", "u", "a", "r", "i">>
    /\ MonthsNamedIn(date_str) = {1, 12}
    /\ parsed = IsoText(<<today[1], 1, 1>>)

\* "15 mars 2023" resolved to March 1 of the reference year 2024.
C13_WitnessOtherYear ==
    /\ resolver = "returned"
    /\ today[1] = 2024
    /\ date_str = <<"1", "5", " ", "m", "a", "r", "s", " ", "2", "0", "2", "3">>
    /\ parsed = <<"2", "0", "2", "4", "-", "0", "3", "-", "0", "1">>

\* The text between its first and its last character that is no whitespace.
TrimmedOf(text) ==
    LET inked == { i \in DOMAIN text : text[i] \notin Whitespace }
    IN  IF inked = {} THEN <<>>
        ELSE SubSeq(text,
                    CHOOSE i \in inked : \A j \in inked : i <= j,
                    CHOOSE i \in inked : \A j \in inked : j <= i)

\* s is a date written YYYY-MM-DD.
IsIsoDateText(s) ==
    /\ Len(s) = 10
    /\ \A i \in {1, 2, 3, 4, 6, 7, 9, 10} : IsDigit(s[i])
    /\ s[5] = "-" /\ s[8] = "-"
    /\ IsDate(<<1000 * DigitValue(s[1]) + 100 * DigitValue(s[2])
                  + 10 * DigitValue(s[3]) + DigitValue(s[4]),
                10 * DigitValue(s[6]) + DigitValue(s[7]),
                10 * DigitValue(s[9]) + DigitValue(s[10])>>)

\* C14: _parse_date returns a string for every input string and raises
\* nothing; when no relative term, no date pattern and no month name matches,
\* the result is the input without its leading and trailing whitespace, in
\* its original letter case; every result is a YYYY-MM-DD date or the
\* trimmed input.
C14_TotalAndIsoOrTrimmed ==
    /\ resolver \in {"called", "returned"}
    /\ \A i \in DOMAIN parsed : parsed[i] \in STRING
    /\ resolver = "returned" =>
        /\ (~IsTermOrLiteral(date_str) /\ MonthsNamedIn(date_str) = {})
             => parsed = TrimmedOf(date_str)
        /\ IsIsoDateText(parsed) \/ parsed = TrimmedOf(date_str)

\* C14 without its last sentence: every call returns, and a text that
\* matches nothing comes back trimmed, in its letter case.
C14_FallbackIsTrimmedInput ==
    /\ resolver \in {"called", "returned"}
    /\ \A i \in DOMAIN parsed : parsed[i] \in STRING
    /\ (resolver = "returned" /\ ~IsTermOrLiteral(date_str)
            /\ MonthsNamedIn(date_str) = {})
         => parsed = TrimmedOf(date_str)

\* C14's last sentence where strftime pads the year, or the year has four
\* significant digits.
C14_IsoOrTrimmedWhenPadded ==
    (resolver = "returned"
        /\ (pads_year \/ \A dt \in { sd \in SampleDates : sd[1] < 1000 } :
                Strip(date_str) \notin {IsoText(dt), SlashText(dt), DashText(dt),
                                        CompactText(dt), LooseIsoText(dt),
                                        LooseSlashText(dt)}))
      => IsIsoDateText(parsed) \/ parsed = TrimmedOf(date_str)

(***************************************************************************)
(* The Query Service (teslamate_api.py): one handler per endpoint, each a  *)
(* try block around the connection, the queries and the processing of the  *)
(* rows, with one except clause that raises an HTTPException.              *)
(*                                                                         *)
(* The store holds store.drives drives, the i-th of them begun i days      *)
(* before today, earlier in the day than the requests are made, each with  *)
(* a distance and a range used above zero.  store.telemetry tells whether  *)
(* the cars, positions, states and charging_processes tables hold rows.    *)
(* store.fault is what goes wrong in a handler: "connect" (psycopg2.connect*)
(* raises), "execute" (the server rejects a query), "process" (a value of  *)
(* a fetched row makes its conversion raise), or "none".                   *)
(***************************************************************************)
Faults == {"none", "connect", "execute", "process"}

\* The drives table holds 0, 3 or 51 rows.
Stores == [fault : Faults, drives : {0, 3, 51}, telemetry : BOOLEAN]

Endpoints ==
    {"/api/health", "/api/cars", "/api/total-distance", "/api/battery-status",
     "/api/battery-health", "/api/temperature", "/api/tire-pressure",
     "/api/car-state", "/api/drive-stats", "/api/charging-stats",
     "/api/recent-drives", "/api/drives-by-date", "/api/driving-journal",
     "/api/efficiency"}

\* The day the i-th drive began, as an ordinal.
DriveDay(i) == ToOrdinal(today) - i

\* ORDER BY ... DESC and ASC of a set of integers.
RECURSIVE Descending(_)
Descending(S) ==
    IF S = {} THEN <<>>
    ELSE LET top == CHOOSE x \in S : \A y \in S : y <= x
         IN  <<top>> \o Descending(S \ {top})

RECURSIVE Ascending(_)
Ascending(S) ==
    IF S = {} THEN <<>>
    ELSE LET low == CHOOSE x \in S : \A y \in S : x <= y
         IN  <<low>> \o Ascending(S \ {low})

\* LIMIT n
Limit(rows, n) == SubSeq(rows, 1, IF n < Len(rows) THEN n ELSE Len(rows))

\* WHERE start_date >= now - timedelta(days=n): the drives begun less than
\* n whole days before the request.
DrivesSince(n) == { i \in 1..store.drives : i < n }

\* The server reads a text as a date: <<date>>, or <<>> when it rejects it
\* ("invalid input syntax for type date", "date/time field value out of
\* range").
PgDate(text) == Strptime(text, DateFormats[1])

\* WHERE start_date >= %s AND start_date < (%s::date + interval '1 day'),
\* ORDER BY start_date ASC: the days of the drives in the range.
DrivesBetween(start_date, end_date) ==
    Ascending({ DriveDay(i) : i \in
        { k \in 1..store.drives :
            /\ ToOrdinal(PgDate(start_date)[1]) <= DriveDay(k)
            /\ DriveDay(k) <= ToOrdinal(PgDate(end_date)[1]) } })

\* if not end_date: end_date = datetime.now().strftime("%Y-%m-%d")
EndDateOf(params) ==
    IF params.end_date = <<>> THEN Strftime(today, pads_year)
    ELSE params.end_date

\* The exception a handler meets, or "": the connection first, then the
\* queries (accepted says whether the server takes their parameters), then
\* the rows (converts says whether a fetched value is converted).
Raised(accepted, converts) ==
    IF store.fault = "connect" THEN "connect"
    ELSE IF store.fault = "execute" \/ ~accepted THEN "execute"
    ELSE IF store.fault = "process" /\ converts THEN "process"
    ELSE ""

\* str(e)
ExceptionText(raised) ==
    IF raised = "connect" THEN "could not connect to server"
    ELSE IF raised = "execute" THEN "the query failed"
    ELSE "a value could not be converted"

\* Mutant of FailureStatus: one status for every endpoint.
FailureStatusUniform(endpoint) == 500

\* The status_code of the HTTPException in the except clause of a handler.
FailureStatus(endpoint) == IF endpoint = "/api/health" THEN 503 ELSE 500

\* detail= of the HTTPException
FailureDetail(endpoint, raised) ==
    IF endpoint = "/api/health"
    THEN <<"Database error: ", ExceptionText(raised)>>
    ELSE <<ExceptionText(raised)>>

\* Mutant of Answer: a handler that fails rolls back by emptying the drives
\* table.
AnswerDeleting(endpoint, raised, payload) ==
    /\ wire.phase = "sent"
    /\ wire.endpoint = endpoint
    /\ wire' = [wire EXCEPT
                  !.phase = "answered",
                  !.raised = raised,
                  !.status = IF raised = "" THEN 200 ELSE 500,
                  !.body = IF raised = "" THEN payload
                           ELSE [detail |-> <<"rolled back">>]]
    /\ store' = IF raised = "" THEN store ELSE [store EXCEPT !.drives = 0]
    /\ UNCHANGED <<tool, output, journalVars, dateVars, workerVars>>

\* A handler runs for the request on the wire: it returns the payload, or
\* its except clause turns what was raised into an HTTPException.
Answer(endpoint, raised, payload) ==
    /\ wire.phase = "sent"
    /\ wire.endpoint = endpoint
    /\ wire' = [wire EXCEPT
                  !.phase = "answered",
                  !.raised = raised,
                  !.status = IF raised = "" THEN 200 ELSE FailureStatus(endpoint),
                  !.body = IF raised = "" THEN payload
                           ELSE [detail |-> FailureDetail(endpoint, raised)]]
    /\ UNCHANGED <<store, tool, output, journalVars, dateVars, workerVars>>

\* health_check opens and closes a connection and runs no query.
Api_health_check ==
    Answer("/api/health",
           IF store.fault = "connect" THEN "connect" ELSE "",
           [status |-> "healthy", database |-> "connected"])

Api_get_cars ==
    Answer("/api/cars", Raised(TRUE, FALSE),
           [cars |-> IF store.telemetry THEN <<"car">> ELSE <<>>])

\* SUM(distance) of no drives is NULL, and the handler takes the last branch.
Api_get_total_distance ==
    Answer("/api/total-distance", Raised(TRUE, store.drives > 0),
           IF store.drives > 0
           THEN [total_distance_logged |-> 12 * store.drives,
                 odometer_km |-> IF store.telemetry THEN 50000 ELSE NULL,
                 unit |-> "kilometer",
                 total_trips |-> store.drives]
           ELSE [total_distance_logged |-> 0, odometer_km |-> NULL,
                 unit |-> "km", total_trips |-> 0])

Api_get_battery_status ==
    Answer("/api/battery-status", Raised(TRUE, store.telemetry),
           IF store.telemetry
           THEN [battery_level_percent |-> 80, car_name |-> "car"]
           ELSE [error |-> "No battery data found"])

\* Every figure of battery-health has a value for no rows: 0 or None.
Api_get_battery_health ==
    Answer("/api/battery-health", Raised(TRUE, store.telemetry),
           [odometer_km |-> IF store.telemetry THEN 50000 ELSE 0,
            battery_health_percent |-> IF store.telemetry THEN 95 ELSE NULL,
            total_charges |-> IF store.telemetry THEN 20 ELSE 0,
            total_energy_added_kwh |-> IF store.telemetry THEN 900 ELSE 0,
            total_energy_used_kwh |-> IF store.telemetry THEN 1000 ELSE 0])

\* result = {"period_hours": hours}; "current" and "stats" are added when
\* their rows exist.
Api_get_temperature ==
    Answer("/api/temperature", Raised(TRUE, store.telemetry),
           IF store.telemetry
           THEN [period_hours |-> wire.params.hours, current |-> 12, stats |-> 10]
           ELSE [period_hours |-> wire.params.hours])

Api_get_tire_pressure ==
    Answer("/api/tire-pressure", Raised(TRUE, store.telemetry),
           IF store.telemetry
           THEN [front_left_bar |-> 29, average_bar |-> 29]
           ELSE [error |-> "No tire pressure data available"])

Api_get_car_state ==
    Answer("/api/car-state", Raised(TRUE, FALSE),
           IF store.telemetry
           THEN [current_state |-> "asleep", recent_states |-> <<"asleep", "online">>]
           ELSE [error |-> "No state data available"])

Api_get_drive_stats ==
    Answer("/api/drive-stats",
           Raised(TRUE, DrivesSince(wire.params.days) # {}),
           IF DrivesSince(wire.params.days) # {}
           THEN [period_days |-> wire.params.days,
                 total_drives |-> Cardinality(DrivesSince(wire.params.days))]
           ELSE [error |-> "No drive data for last ... days"])

Api_get_charging_stats ==
    Answer("/api/charging-stats", Raised(TRUE, store.telemetry),
           IF store.telemetry
           THEN [period_days |-> wire.params.days, total_charging_sessions |-> 20]
           ELSE [error |-> "No charging data found for last ... days"])

\* ORDER BY d.start_date DESC LIMIT %s, with the limit of the request.
Api_get_recent_drives ==
    LET drives_ == Limit(Descending({ DriveDay(i) : i \in 1..store.drives }),
                         wire.params.limit)
    IN  Answer("/api/recent-drives", Raised(TRUE, FALSE),
               [recent_drives |-> drives_, count |-> Len(drives_)])

Api_get_drives_by_date ==
    LET start_date == wire.params.start_date
        end_date == EndDateOf(wire.params)
        accepted == PgDate(start_date) # <<>> /\ PgDate(end_date) # <<>>
        drives_ == IF accepted /\ store.fault = "none"
                   THEN DrivesBetween(start_date, end_date) ELSE <<>>
    IN  Answer("/api/drives-by-date", Raised(accepted, FALSE),
               [start_date |-> start_date, end_date |-> end_date,
                drives |-> drives_, count |-> Len(drives_),
                total_distance_km |-> 12 * Len(drives_)])

\* The journal of the range: an entry for each day with drives (the
\* entries themselves are worked out in JRequest to JReturn).
Api_get_driving_journal ==
    LET start_date == wire.params.start_date
        end_date == EndDateOf(wire.params)
        accepted == PgDate(start_date) # <<>> /\ PgDate(end_date) # <<>>
        entries == IF accepted /\ store.fault = "none"
                   THEN DrivesBetween(start_date, end_date) ELSE <<>>
    IN  Answer("/api/driving-journal", Raised(accepted, FALSE),
               [period |-> [start |-> start_date, end |-> end_date],
                entries |-> entries,
                summary |-> [total_days |-> Len(entries)]])

Api_get_efficiency ==
    Answer("/api/efficiency",
           Raised(TRUE, DrivesSince(wire.params.days) # {}),
           IF DrivesSince(wire.params.days) # {}
           THEN [period_days |-> wire.params.days,
                 trip_count |-> Cardinality(DrivesSince(wire.params.days))]
           ELSE [error |-> "No drive data found for last ... days"])

(***************************************************************************)
(* The tool (teslamate_tool.py): a method sends one GET through _api_call, *)
(* waits for the response or for the failure of the request, and renders   *)
(* what _api_call returned.                                                *)
(***************************************************************************)
\* if limit > 50: limit = 50
MaxLimit == 50

\* (today - timedelta(days=7)).isoformat(), the default start_date
DefaultLookback == 7

\* The exceptions of requests and the classes an except clause catches
\* them as.
Catches(exc) ==
    IF exc = "ConnectionError" THEN {"ConnectionError", "Exception"}
    ELSE IF exc = "ConnectTimeout" THEN {"ConnectionError", "Timeout", "Exception"}
    ELSE IF exc = "ReadTimeout" THEN {"Timeout", "Exception"}
    ELSE {"Exception"}

ConnectionText == "Could not connect to TeslaMate API. Is the service running?"

TimeoutText == "TeslaMate API timed out"

\* str(e) of what raise_for_status and response.json raise
ErrorText(exc, status) ==
    IF exc = "HTTPError"
    THEN (IF status = 503 THEN "503 Server Error: Service Unavailable"
          ELSE "500 Server Error: Internal Server Error")
    ELSE "Expecting value: line 1 column 1 (char 0)"

\* Mutant of Handled: the Timeout clause before the ConnectionError clause,
\* with the texts of the two exchanged.
HandledSwapped(exc, status) ==
    IF "Timeout" \in Catches(exc) THEN [error |-> ConnectionText]
    ELSE IF "ConnectionError" \in Catches(exc) THEN [error |-> TimeoutText]
    ELSE [error |-> ErrorText(exc, status)]

\* The except clauses of _api_call, in their order.
Handled(exc, status) ==
    IF "ConnectionError" \in Catches(exc) THEN [error |-> ConnectionText]
    ELSE IF "Timeout" \in Catches(exc) THEN [error |-> TimeoutText]
    ELSE [error |-> ErrorText(exc, status)]

\* What _api_call returns for the request w: requests.get raised,
\* raise_for_status raised, response.json raised, or the parsed body.
Tools_api_call(w) ==
    IF w.phase = "failed" THEN Handled(w.failure, w.status)
    ELSE IF w.status >= 400 THEN Handled("HTTPError", w.status)
    ELSE IF w.garbled THEN Handled("JSONDecodeError", w.status)
    ELSE w.body

\* requests.get(url, params=params, timeout=10) goes out.
Send(method, endpoint, params, start_date, end_date) ==
    /\ tool.phase = "idle"
    /\ wire.phase = "none"
    /\ tool' = [phase |-> "waiting", method |-> method, sent |-> tool.sent + 1,
                start_date |-> start_date, end_date |-> end_date]
    /\ wire' = [NoWire EXCEPT !.phase = "sent", !.origin = "tool",
                              !.endpoint = endpoint, !.params = params]
    /\ UNCHANGED <<store, output, journalVars, dateVars, workerVars>>

\* The arguments the tool methods are called with.
ToolDays == {30, 2}

ToolStartDates ==
    {<<>>,
     <<"i", "g", "aring", "r">>,
     <<"m", "a", "j">>,
     <<"2", "0", "2", "4", "-", "0", "5", "-", "3", "0">>,
     <<"2", "0", "2", "5", "-", "0", "1", "-", "0", "1">>,
     <<"n", "e", "x", "t", " ", "w", "e", "e", "k">>}

ToolEndDates ==
    {<<>>,
     <<"3", "0", "/", "0", "5", "/", "2", "0", "2", "4">>,
     <<"n", "auml", "s", "t", "a", " ", "v", "e", "c", "k", "a">>}

\* get_current_date makes no request.
Tools_get_current_date ==
    /\ tool.phase = "idle"
    /\ wire.phase = "none"
    /\ tool' = [NoTool EXCEPT !.phase = "returned", !.method = "get_current_date"]
    /\ output' = [raised |-> FALSE, prefix |-> "**Dagens datum:** ",
                  detail |-> ""]
    /\ UNCHANGED <<store, wire, journalVars, dateVars, workerVars>>

Tools_get_car_info ==
    Send("get_car_info", "/api/cars", NoParams, <<>>, <<>>)

Tools_get_battery_status ==
    Send("get_battery_status", "/api/battery-status", NoParams, <<>>, <<>>)

Tools_get_battery_health ==
    Send("get_battery_health", "/api/battery-health", NoParams, <<>>, <<>>)

Tools_get_temperature ==
    \E hours \in {24} :
        Send("get_temperature", "/api/temperature",
             [NoParams EXCEPT !.hours = hours], <<>>, <<>>)

Tools_get_tire_pressure ==
    Send("get_tire_pressure", "/api/tire-pressure", NoParams, <<>>, <<>>)

Tools_get_car_state ==
    Send("get_car_state", "/api/car-state", NoParams, <<>>, <<>>)

Tools_get_drive_stats ==
    \E days_ \in ToolDays :
        Send("get_drive_stats", "/api/drive-stats",
             [NoParams EXCEPT !.days = days_], <<>>, <<>>)

Tools_get_total_distance ==
    Send("get_total_distance", "/api/total-distance", NoParams, <<>>, <<>>)

Tools_get_charging_stats ==
    \E days_ \in ToolDays :
        Send("get_charging_stats", "/api/charging-stats",
             [NoParams EXCEPT !.days = days_], <<>>, <<>>)

Tools_get_recent_drives ==
    \E limit \in {10, 50, 51, 60} :
        Send("get_recent_drives", "/api/recent-drives",
             [NoParams EXCEPT !.limit = IF limit > MaxLimit THEN MaxLimit ELSE limit],
             <<>>, <<>>)

\* parsed_start and parsed_end of get_drives_by_date and get_driving_journal
ParsedStart(start_date) ==
    IF start_date # <<>> THEN ParseDate(start_date, today, pads_year)
    ELSE IsoFormat(MinusDays(today, DefaultLookback))

ParsedEnd(end_date) ==
    IF end_date # <<>> THEN ParseDate(end_date, today, pads_year)
    ELSE IsoFormat(today)

Tools_get_drives_by_date ==
    \E start_date \in ToolStartDates, end_date \in ToolEndDates :
        Send("get_drives_by_date", "/api/drives-by-date",
             [NoParams EXCEPT !.start_date = ParsedStart(start_date),
                              !.end_date = ParsedEnd(end_date)],
             start_date, end_date)

Tools_get_driving_journal ==
    \E start_date \in ToolStartDates, end_date \in ToolEndDates :
        Send("get_driving_journal", "/api/driving-journal",
             [NoParams EXCEPT !.start_date = ParsedStart(start_date),
                              !.end_date = ParsedEnd(end_date)],
             start_date, end_date)

Tools_get_efficiency ==
    \E days_ \in ToolDays :
        Send("get_efficiency", "/api/efficiency",
             [NoParams EXCEPT !.days = days_], <<>>, <<>>)

Tools_get_health_status ==
    Send("get_health_status", "/api/health", NoParams, <<>>, <<>>)

\* A return value that is a text beginning with prefix.
Text(prefix) == [raised |-> FALSE, prefix |-> prefix, detail |-> ""]

\* What a tool method makes of the dict _api_call returned: the error text
\* behind a prefix, a text of its own for no rows, or the report; formatting
\* None with ",.1f" raises a TypeError.
Render(method, data) ==
    IF "error" \in DOMAIN data
    THEN [raised |-> FALSE,
          prefix |-> IF method = "get_health_status"
                     THEN "TeslaMate API Error: " ELSE "Error: ",
          detail |-> data.error]
    ELSE IF method = "get_car_info"
         THEN (IF data.cars = <<>> THEN Text("No cars found in TeslaMate.")
               ELSE Text("**"))
    ELSE IF method = "get_total_distance"
         THEN (IF data.odometer_km = NULL
               THEN [raised |-> TRUE, prefix |-> "", detail |-> "TypeError"]
               ELSE Text("**Distance**"))
    ELSE IF method = "get_recent_drives"
         THEN (IF data.recent_drives = <<>> THEN Text("No recent drives found.")
               ELSE Text("**Last "))
    ELSE IF method = "get_drives_by_date"
         THEN (IF data.drives = <<>> THEN Text("No drives found between ")
               ELSE Text("**Drives "))
    ELSE IF method = "get_driving_journal"
         THEN (IF data.entries = <<>> THEN Text("No driving data found for ")
               ELSE Text("**Korjournal "))
    ELSE IF method = "get_health_status"
         THEN Text("**TeslaMate System Status**")
    ELSE Text("**")

\* _api_call returns and the method renders its result.
Tools_return ==
    /\ tool.phase = "waiting"
    /\ wire.origin = "tool"
    /\ wire.phase \in {"answered", "failed"}
    /\ output' = Render(tool.method, Tools_api_call(wire))
    /\ tool' = [tool EXCEPT !.phase = "returned"]
    /\ UNCHANGED <<store, wire, journalVars, dateVars, workerVars>>

\* The caller has the return value; the next method can be called.
Tools_next ==
    /\ tool.phase = "returned"
    /\ tool' = NoTool
    /\ wire' = NoWire
    /\ output' = NoOutput
    /\ UNCHANGED <<store, journalVars, dateVars, workerVars>>

(***************************************************************************)
(* The network between the tool and the service, and requests that reach   *)
(* the endpoints without the tool.                                         *)
(***************************************************************************)
\* The request does not get through: the connection is refused, or it is
\* not made within the timeout.
NetConnectFails ==
    /\ tool.phase = "waiting"
    /\ wire.phase = "sent"
    /\ wire.origin = "tool"
    /\ \E exc \in {"ConnectionError", "ConnectTimeout"} :
          wire' = [wire EXCEPT !.phase = "failed", !.failure = exc]
    /\ UNCHANGED <<store, tool, output, journalVars, dateVars, workerVars>>

\* No response arrives within the timeout, whether the handler has run or
\* not.
NetReadTimeout ==
    /\ tool.phase = "waiting"
    /\ wire.phase \in {"sent", "answered"}
    /\ wire.origin = "tool"
    /\ wire' = [wire EXCEPT !.phase = "failed", !.failure = "ReadTimeout"]
    /\ UNCHANGED <<store, tool, output, journalVars, dateVars, workerVars>>

\* The body that arrives is no JSON.
NetGarbles ==
    /\ tool.phase = "waiting"
    /\ wire.phase = "answered"
    /\ wire.origin = "tool"
    /\ ~wire.garbled
    /\ wire' = [wire EXCEPT !.garbled = TRUE]
    /\ UNCHANGED <<store, tool, output, journalVars, dateVars, workerVars>>

DirectDates ==
    {<<"2", "0", "2", "4", "-", "0", "5", "-", "3", "0">>,
     <<"n", "e", "x", "t", " ", "w", "e", "e", "k">>}

\* The query parameters of a request made without the tool.
DirectParams(endpoint) ==
    IF endpoint = "/api/recent-drives"
    THEN { [NoParams EXCEPT !.limit = n] : n \in {0, 10, 50, 60} }
    ELSE IF endpoint \in {"/api/drive-stats", "/api/charging-stats", "/api/efficiency"}
    THEN { [NoParams EXCEPT !.days = n] : n \in ToolDays }
    ELSE IF endpoint = "/api/temperature"
    THEN { [NoParams EXCEPT !.hours = n] : n \in {24} }
    ELSE IF endpoint \in {"/api/drives-by-date", "/api/driving-journal"}
    THEN { [NoParams EXCEPT !.start_date = s, !.end_date = e] :
              s \in DirectDates, e \in DirectDates \cup {<<>>} }
    ELSE {NoParams}

\* A request sent to an endpoint by another client.
DirectRequest ==
    /\ tool.phase = "idle"
    /\ wire.phase = "none"
    /\ \E endpoint \in Endpoints : \E params \in DirectParams(endpoint) :
          wire' = [NoWire EXCEPT !.phase = "sent", !.origin = "direct",
                                 !.endpoint = endpoint, !.params = params]
    /\ UNCHANGED <<store, tool, output, journalVars, dateVars, workerVars>>

\* The other client has its response.
DirectDone ==
    /\ wire.phase = "answered"
    /\ wire.origin = "direct"
    /\ wire' = NoWire
    /\ UNCHANGED <<store, tool, output, journalVars, dateVars, workerVars>>

ServiceInit ==
    /\ pc = "idle"
    /\ request = NoRequest
    /\ drives = <<>>
    /\ rate_per_mil = DefaultRate
    /\ days = EmptyDays
    /\ day_queue = <<>>
    /\ journal_entries = <<>>
    /\ total_mil = 0
    /\ total_cost = 0
    /\ response = NoResponse
    /\ today = <<2024, 6, 1>>
    /\ pads_year \in BOOLEAN
    /\ date_str = <<>>
    /\ parsed = <<>>
    /\ resolver = "called"
    /\ store \in Stores
    /\ wire = NoWire
    /\ tool = NoTool
    /\ output = NoOutput
    /\ threads = [t \in Threads |-> NoThread]
    /\ generator = 0
    /\ connections = 0

ServiceNext ==
    \/ Api_health_check
    \/ Api_get_cars
    \/ Api_get_total_distance
    \/ Api_get_battery_status
    \/ Api_get_battery_health
    \/ Api_get_temperature
    \/ Api_get_tire_pressure
    \/ Api_get_car_state
    \/ Api_get_drive_stats
    \/ Api_get_charging_stats
    \/ Api_get_recent_drives
    \/ Api_get_drives_by_date
    \/ Api_get_driving_journal
    \/ Api_get_efficiency
    \/ Tools_get_current_date
    \/ Tools_get_car_info
    \/ Tools_get_battery_status
    \/ Tools_get_battery_health
    \/ Tools_get_temperature
    \/ Tools_get_tire_pressure
    \/ Tools_get_car_state
    \/ Tools_get_drive_stats
    \/ Tools_get_total_distance
    \/ Tools_get_charging_stats
    \/ Tools_get_recent_drives
    \/ Tools_get_drives_by_date
    \/ Tools_get_driving_journal
    \/ Tools_get_efficiency
    \/ Tools_get_health_status
    \/ Tools_return
    \/ Tools_next
    \/ NetConnectFails
    \/ NetReadTimeout
    \/ NetGarbles
    \/ DirectRequest
    \/ DirectDone

ServiceSpec == ServiceInit /\ [][ServiceNext]_vars

(***************************************************************************)
(* Claims about the endpoints and the tool methods.                        *)
(***************************************************************************)

\* _parse_date has no term, pattern or month name for the text.
Unresolvable(text) ==
    /\ ~IsTermOrLiteral(text)
    /\ MonthsNamedIn(text) = {}

\* get_drives_by_date or get_driving_journal has returned after a request
\* that reached its handler, on a store without a fault and a network that
\* delivered the response, and one of its dates was unresolvable.
UnresolvedDateAnswered ==
    /\ tool.phase = "returned"
    /\ tool.method \in {"get_drives_by_date", "get_driving_journal"}
    /\ Unresolvable(tool.start_date) \/ Unresolvable(tool.end_date)
    /\ store.fault = "none"
    /\ wire.phase = "answered"
    /\ ~wire.garbled

\* The unresolvable dates went out as they were given, trimmed.
PassedThrough ==
    /\ Unresolvable(tool.start_date)
          => wire.params.start_date = TrimmedOf(tool.start_date)
    /\ Unresolvable(tool.end_date)
          => wire.params.end_date = TrimmedOf(tool.end_date)

\* C15: when get_driving_journal or get_drives_by_date is called with a
\* start or end date that _parse_date cannot resolve, the text is passed
\* through to the Query Service, the range query returns zero rows, the
\* request is answered without an error status, and the tool reports that
\* no drives or driving data were found, not an error.
C15_UnresolvedDateFindsNothing ==
    UnresolvedDateAnswered =>
        /\ PassedThrough
        /\ wire.status = 200
        /\ ~output.raised
        /\ output.prefix \in {"No drives found between ",
                              "No driving data found for "}

\* What the code does with an unresolvable date: it is passed through, the
\* server rejects it in the query, the handler answers 500 and the tool
\* returns the text of the HTTP error behind "Error: ".
C15_UnresolvedDateIsAnError ==
    UnresolvedDateAnswered =>
        /\ PassedThrough
        /\ wire.status = 500
        /\ ~output.raised
        /\ output.prefix = "Error: "
        /\ output.detail = "500 Server Error: Internal Server Error"

\* The endpoints C16 lists.
C16Endpoints ==
    {"/api/total-distance", "/api/battery-status", "/api/battery-health",
     "/api/temperature", "/api/tire-pressure", "/api/car-state",
     "/api/drive-stats", "/api/charging-stats", "/api/efficiency",
     "/api/recent-drives", "/api/drives-by-date", "/api/driving-journal"}

\* A handler has answered from a reachable store that holds no rows at all,
\* its query taken by the server.
AnsweredFromEmptyStore ==
    /\ wire.phase = "answered"
    /\ wire.endpoint \in C16Endpoints
    /\ store = [fault |-> "none", drives |-> 0, telemetry |-> FALSE]
    /\ wire.endpoint \in {"/api/drives-by-date", "/api/driving-journal"}
          => /\ IsIsoDateText(wire.params.start_date)
             /\ wire.params.end_date = <<>> \/ IsIsoDateText(wire.params.end_date)

\* C16: for every listed endpoint, when the store is reachable but holds no
\* matching rows, the response has HTTP status 200 and its JSON object
\* carries an error key with an explanatory message.
C16_NoRowsIsErrorKeyWith200 ==
    AnsweredFromEmptyStore =>
        /\ wire.status = 200
        /\ "error" \in DOMAIN wire.body

\* What the code does on no rows: status 200 everywhere, an error key from
\* six of the endpoints, and from the other six the payload of a success
\* with zeros, None or empty lists and no error key.
C16_NoRowsIs200ErrorKeyFromSix ==
    AnsweredFromEmptyStore =>
        /\ wire.status = 200
        /\ "error" \in DOMAIN wire.body
              <=> wire.endpoint \in
                    {"/api/battery-status", "/api/tire-pressure", "/api/car-state",
                     "/api/drive-stats", "/api/charging-stats", "/api/efficiency"}

\* C17: every failure raised while an endpoint handles a request (store
\* unreachable, query rejected, error while processing rows) is caught at
\* the endpoint boundary: /api/health answers 503 and every other endpoint
\* 500, each with an error detail; every handled request has an HTTP status;
\* a successful health check returns {status: healthy, database: connected}.
C17_FailuresBecomeHttpErrors ==
    wire.phase = "answered" =>
        LET health == wire.endpoint = "/api/health"
            ranged == wire.endpoint \in {"/api/drives-by-date", "/api/driving-journal"}
            rejected == ranged /\ \/ ~IsIsoDateText(wire.params.start_date)
                                  \/ /\ wire.params.end_date # <<>>
                                     /\ ~IsIsoDateText(wire.params.end_date)
        IN  /\ wire.status \in {200, 500, 503}
            /\ wire.status = 200 <=> wire.raised = ""
            /\ wire.status = 503 => health
            /\ wire.status = 500 => ~health
            /\ wire.status # 200 =>
                  /\ DOMAIN wire.body = {"detail"}
                  /\ wire.body.detail # <<>>
            /\ store.fault = "connect" => wire.status = IF health THEN 503 ELSE 500
            /\ (store.fault = "execute" /\ ~health) => wire.status = 500
            /\ (rejected /\ store.fault # "connect") => wire.status = 500
            /\ wire.raised = "process" => wire.status = 500
            /\ (health /\ store.fault # "connect") =>
                  /\ wire.status = 200
                  /\ wire.body = [status |-> "healthy", database |-> "connected"]

\* The health check answered 503 from a store that cannot be reached.
C17_Witness ==
    /\ wire.phase = "answered"
    /\ wire.endpoint = "/api/health"
    /\ store.fault = "connect"
    /\ wire.status = 503
    /\ wire.body.detail[1] = "Database error: "

\* A row of the tire-pressure query could not be converted: 500.
C17_WitnessProcessing ==
    /\ wire.phase = "answered"
    /\ wire.endpoint = "/api/tire-pressure"
    /\ wire.raised = "process"
    /\ wire.status = 500

\* The request of the running tool method failed: it did not get through,
\* its status was an error, or its body was no JSON.
RequestFailed ==
    \/ wire.phase = "failed"
    \/ wire.phase = "answered" /\ (wire.status >= 400 \/ wire.garbled)

C19_TimeoutTextAndOneRequest ==
    /\ (tool.phase = "returned" /\ wire.phase = "failed"
            /\ wire.failure \in {"ConnectTimeout", "ReadTimeout"})
          => output.detail = "TeslaMate API timed out"
    /\ (tool.phase \in {"waiting", "returned"} /\ tool.method # "get_current_date")
          => tool.sent = 1

\* What the code does: the timed-out text for a timeout while waiting for
\* the response, the connection text for a timeout while connecting, and one
\* request for each invocation.
C19_ReadTimeoutTextAndOneRequest ==
    /\ (tool.phase = "returned" /\ wire.phase = "failed" /\ wire.failure = "ReadTimeout")
          => output.detail = "TeslaMate API timed out"
    /\ (tool.phase = "returned" /\ wire.phase = "failed" /\ wire.failure = "ConnectTimeout")
          => output.detail = "Could not connect to TeslaMate API. Is the service running?"
    /\ (tool.phase \in {"waiting", "returned"} /\ tool.method # "get_current_date")
          => tool.sent = 1

\* The drives of a response are in the order of their days, latest first.
LatestFirst(rows) == \A i \in 1..(Len(rows) - 1) : rows[i] > rows[i + 1]

\* C20: /api/recent-drives caps its limit at 50: whatever limit a request
\* supplies, also one above 50 sent to the endpoint without the tool, the
\* response holds at most 50 drives, from the most recent to the oldest, and
\* count is the number of drives returned.
C20_RecentDrivesAtMost50 ==
    (wire.phase = "answered" /\ wire.endpoint = "/api/recent-drives"
        /\ wire.status = 200)
      => /\ Len(wire.body.recent_drives) <= 50
         /\ LatestFirst(wire.body.recent_drives)
         /\ wire.body.count = Len(wire.body.recent_drives)

\* What the code does: the endpoint returns as many of the latest drives as
\* the limit of the request asks for, and the tool never asks for more
\* than 50.
C20_RecentDrivesUpToLimit ==
    (wire.phase = "answered" /\ wire.endpoint = "/api/recent-drives"
        /\ wire.status = 200)
      => /\ Len(wire.body.recent_drives)
               = (IF wire.params.limit < store.drives THEN wire.params.limit
                  ELSE store.drives)
         /\ wire.origin = "tool" => Len(wire.body.recent_drives) <= 50
         /\ LatestFirst(wire.body.recent_drives)
         /\ \A i \in DOMAIN wire.body.recent_drives :
               wire.body.recent_drives[i] = ToOrdinal(today) - i
         /\ wire.body.count = Len(wire.body.recent_drives)

\* C23: no endpoint mutates state: in every step, whichever endpoint
\* answers, with whatever parameters, and whether the request succeeds or
\* fails, the contents of the external store stay as they were.
C23_NoEndpointMutatesStore == [][store' = store]_vars

\* A request for the journal has been answered with an HTTP error on a store
\* that holds drives and telemetry.
C23_Witness ==
    /\ wire.phase = "answered"
    /\ wire.endpoint = "/api/driving-journal"
    /\ wire.status = 500
    /\ store.drives = 3
    /\ store.telemetry

\* A request for the recent drives has been answered with its rows.
C23_WitnessSuccess ==
    /\ wire.phase = "answered"
    /\ wire.endpoint = "/api/recent-drives"
    /\ wire.status = 200
    /\ Len(wire.body.recent_drives) = 3
    /\ store.drives = 3

\* get_total_distance has returned after its request was answered with
\* status 200 and the body arrived as sent.
TotalDistanceAnswered ==
    /\ tool.phase = "returned"
    /\ tool.method = "get_total_distance"
    /\ wire.phase = "answered"
    /\ wire.status = 200
    /\ ~wire.garbled

\* C26: the tool's get_total_distance returns a formatted string for every
\* HTTP 200 payload that /api/total-distance can produce, also the one in
\* which odometer_km is null (no logged distance, or no position rows); it
\* never raises while formatting the odometer or the logged distance.
C26_TotalDistanceAlwaysFormats ==
    TotalDistanceAnswered
      => /\ ~output.raised
         /\ output.prefix = "**Distance**"

\* What the code does: the report when the payload has an odometer, a
\* TypeError out of the method when odometer_km is null.
C26_TotalDistanceFormatsAnOdometer ==
    TotalDistanceAnswered
      => IF store.drives > 0 /\ store.telemetry
         THEN output = [raised |-> FALSE, prefix |-> "**Distance**", detail |-> ""]
         ELSE /\ wire.body.odometer_km = NULL
              /\ output = [raised |-> TRUE, prefix |-> "", detail |-> "TypeError"]

(***************************************************************************)
(* The table of get_driving_journal in the tool (teslamate_tool.py): one   *)
(* row for each entry of the response, the destination cut to 40           *)
(* characters.  The entries of a response carry the place they have in it  *)
(* as their date.                                                          *)
(***************************************************************************)
MaxEntries == 2

\* A destination of n characters, no two neighbours alike.
Label(n) ==
    [i \in 1..n |->
        <<"S", "t", "o", "r", "g", "a", "t", "a", "n", " ", "1", "2", ",">>[((i - 1) % 13) + 1]]

\* The lengths of the display names the store holds.
Destinations == { Label(n) : n \in {0, 7, 37, 39, 40, 41, 43, 60} }

\* Mutant of Truncated: the ellipsis after the first 40 characters.
TruncatedAfter40(dest) ==
    IF Len(dest) > 40 THEN SubSeq(dest, 1, 40) \o <<".", ".", ".">> ELSE dest

\* if len(dest) > 40: dest = dest[:37] + "..."
Truncated(dest) ==
    IF Len(dest) > 40 THEN SubSeq(dest, 1, 37) \o <<".", ".", ".">> ELSE dest

\* for e in entries: lines.append(...)
TableRows(entries) ==
    [i \in DOMAIN entries |->
        [date |-> entries[i].date,
         destination |-> Truncated(entries[i].destination)]]

\* The tool waits in get_driving_journal, and the response of
\* /api/driving-journal has arrived with its entries.
TableInit ==
    /\ pc = "idle"
    /\ request = NoRequest
    /\ drives = <<>>
    /\ rate_per_mil = DefaultRate
    /\ days = EmptyDays
    /\ day_queue = <<>>
    /\ journal_entries = <<>>
    /\ total_mil = 0
    /\ total_cost = 0
    /\ response = NoResponse
    /\ today = <<2024, 6, 1>>
    /\ pads_year = TRUE
    /\ date_str = <<>>
    /\ parsed = <<>>
    /\ resolver = "called"
    /\ store = [fault |-> "none", drives |-> 3, telemetry |-> TRUE]
    /\ tool = [NoTool EXCEPT !.phase = "waiting", !.method = "get_driving_journal",
                             !.sent = 1]
    /\ output = NoOutput
    /\ threads = [t \in Threads |-> NoThread]
    /\ generator = 0
    /\ connections = 0
    /\ \E n \in 0..MaxEntries : \E labels \in [1..n -> Destinations] :
          wire = [NoWire EXCEPT
                    !.phase = "answered", !.origin = "tool",
                    !.endpoint = "/api/driving-journal", !.status = 200,
                    !.body = [entries |-> [i \in 1..n |->
                                  [date |-> i, destination |-> labels[i]]]]]

\* get_driving_journal renders the entries it received.
Tools_render_journal ==
    /\ tool.phase = "waiting"
    /\ tool.method = "get_driving_journal"
    /\ wire.phase = "answered"
    /\ output' = IF wire.body.entries = <<>>
                 THEN [raised |-> FALSE, prefix |-> "No driving data found for ",
                       detail |-> "", rows |-> <<>>]
                 ELSE [raised |-> FALSE, prefix |-> "**Korjournal ",
                       detail |-> "", rows |-> TableRows(wire.body.entries)]
    /\ tool' = [tool EXCEPT !.phase = "returned"]
    /\ UNCHANGED <<store, wire, journalVars, dateVars, workerVars>>

TableSpec == TableInit /\ [][Tools_render_journal]_vars

\* C21: in the rendering of get_driving_journal a destination longer than
\* 40 characters is replaced by its first 37 characters followed by "..."
\* (exactly 40 characters), and one of 40 characters or fewer is rendered
\* unchanged; so every rendered destination has at most 40 characters, and
\* the table has one row for each entry, in the order received.
C21_DestinationsCutTo40 ==
    (tool.phase = "returned" /\ tool.method = "get_driving_journal")
      => /\ Len(output.rows) = Len(wire.body.entries)
         /\ \A i \in DOMAIN wire.body.entries :
               LET dest == wire.body.entries[i].destination
                   shown == output.rows[i].destination
               IN  /\ output.rows[i].date = wire.body.entries[i].date
                   /\ Len(shown) <= 40
                   /\ Len(dest) <= 40 => shown = dest
                   /\ Len(dest) > 40 =>
                         /\ Len(shown) = 40
                         /\ SubSeq(shown, 1, 37) = SubSeq(dest, 1, 37)
                         /\ SubSeq(shown, 38, 40) = <<".", ".", ".">>

\* A table of two rows: a destination of 41 characters cut to 40, then one
\* of 40 characters as it was.
C21_Witness ==
    /\ tool.phase = "returned"
    /\ tool.method = "get_driving_journal"
    /\ Len(wire.body.entries) = 2
    /\ wire.body.entries[1].destination = Label(41)
    /\ wire.body.entries[2].destination = Label(40)
    /\ output.rows[1].destination = Label(37) \o <<".", ".", ".">>
    /\ output.rows[2].destination = Label(40)

(***************************************************************************)
(* The handlers as the worker threads run them (teslamate_api.py).  The    *)
(* handlers are plain functions, which the server runs in the threads of   *)
(* its pool, so two requests are handled at the same time, step by step:   *)
(* get_db_connection, the queries, conn.close, the draws of the journal,   *)
(* the return.  An exception in the try block goes to the except clause,   *)
(* which raises the HTTPException and nothing else.                        *)
(*                                                                         *)
(* Every table holds rows of the cars 1 and 2: the drive i belongs to car  *)
(* 1 + i % 2 and began on a day of its own, and the other tables hold one  *)
(* row for each car.  A row stands for one that the other conditions of    *)
(* the query select.  The generator of module random is the one instance   *)
(* that every call of random.uniform advances; generator counts its draws, *)
(* and a draw is known by its place in the sequence of the generator.  A   *)
(* day of the journal takes one draw (the further draws of a long day are  *)
(* left out).  A connection that a handler left open is closed when the    *)
(* interpreter finalises it, at a time of its choosing, or not at all.     *)
(***************************************************************************)
MaxUnclosed == 2

MaxDraws == 2

\* The rows of a table.
Table(name) ==
    IF name = "drives"
    THEN { [table |-> name, car |-> 1 + (i % 2), id |-> i] : i \in 1..store.drives }
    ELSE { [table |-> name, car |-> c, id |-> c] :
              c \in IF store.telemetry THEN {1, 2} ELSE {} }

\* The rows the queries of an endpoint read when nothing restricts them to
\* a car.
RowsOf(endpoint) ==
    IF endpoint = "/api/health" THEN {}
    ELSE IF endpoint = "/api/cars" THEN Table("cars")
    ELSE IF endpoint = "/api/total-distance" THEN Table("drives") \cup Table("positions")
    ELSE IF endpoint = "/api/battery-health"
         THEN Table("positions") \cup Table("charging_processes")
    ELSE IF endpoint \in {"/api/battery-status", "/api/temperature", "/api/tire-pressure"}
         THEN Table("positions")
    ELSE IF endpoint = "/api/car-state" THEN Table("states")
    ELSE IF endpoint = "/api/charging-stats" THEN Table("charging_processes")
    ELSE Table("drives")

\* Mutant of CarFilter: the filter for every car_id that is not None.
CarFilterNotNone(car_id) == IF car_id # NULL THEN <<car_id>> ELSE <<>>

\* car_filter = f"AND car_id = {car_id}" if car_id else "": the car of the
\* condition, or no condition.
CarFilter(car_id) == IF car_id # NULL /\ car_id # 0 THEN <<car_id>> ELSE <<>>

\* The rows the queries select with the condition in them.
Selected(endpoint, car_id) ==
    IF CarFilter(car_id) = <<>> THEN RowsOf(endpoint)
    ELSE { r \in RowsOf(endpoint) : r.car = CarFilter(car_id)[1] }

\* A request reaches a thread of the pool.
handle(t) ==
    /\ threads[t].pc = "idle"
    /\ connections < MaxUnclosed
    /\ generator < MaxDraws
    /\ \E endpoint \in Endpoints :
       \E car_id \in IF endpoint \in {"/api/health", "/api/cars"} THEN {NULL}
                     ELSE {NULL, 0, 1, 3} :
          threads' = [threads EXCEPT ![t] =
                         [NoThread EXCEPT !.pc = "called", !.endpoint = endpoint,
                                          !.car_id = car_id, !.seed = generator]]
    /\ UNCHANGED <<generator, connections, journalVars, dateVars, serviceVars>>

\* conn = get_db_connection()
get_db_connection(t) ==
    /\ threads[t].pc = "called"
    /\ threads' = [threads EXCEPT ![t] =
                      IF store.fault = "connect"
                      THEN [@ EXCEPT !.pc = "responded",
                                     !.status = FailureStatus(threads[t].endpoint)]
                      ELSE [@ EXCEPT !.pc = "connected", !.conn = TRUE]]
    /\ UNCHANGED <<generator, connections, journalVars, dateVars, serviceVars>>

\* cur.execute(...) and the fetch, for every query of the handler; a query
\* that raises leaves the try block with the connection open.
cur_execute(t) ==
    /\ threads[t].pc = "connected"
    /\ threads[t].endpoint # "/api/health"
    /\ threads' = [threads EXCEPT ![t] =
                      IF store.fault = "execute"
                      THEN [@ EXCEPT !.pc = "responded", !.status = 500]
                      ELSE [@ EXCEPT !.pc = "fetched",
                                     !.rows = Selected(threads[t].endpoint,
                                                       threads[t].car_id)]]
    /\ UNCHANGED <<generator, connections, journalVars, dateVars, serviceVars>>

\* conn.close(): battery-health and drives-by-date convert their rows
\* before it, and a conversion that raises leaves the try block with the
\* connection open.
conn_close(t) ==
    /\ \/ threads[t].pc = "fetched"
       \/ threads[t].pc = "connected" /\ threads[t].endpoint = "/api/health"
    /\ threads' = [threads EXCEPT ![t] =
                      IF /\ store.fault = "process"
                         /\ @.endpoint \in {"/api/battery-health", "/api/drives-by-date"}
                         /\ @.rows # {}
                      THEN [@ EXCEPT !.pc = "responded", !.status = 500]
                      ELSE [@ EXCEPT !.pc = "closed", !.conn = FALSE]]
    /\ UNCHANGED <<generator, connections, journalVars, dateVars, serviceVars>>

\* extra_km = random.uniform(2, 5), for the next day of the journal
random_uniform(t) ==
    /\ threads[t].pc = "closed"
    /\ threads[t].endpoint = "/api/driving-journal"
    /\ store.fault # "process"
    /\ Len(threads[t].draws) < Cardinality(threads[t].rows)
    /\ generator' = generator + 1
    /\ threads' = [threads EXCEPT ![t].draws = Append(@, generator + 1)]
    /\ UNCHANGED <<connections, journalVars, dateVars, serviceVars>>

\* The handler returns its payload, or a conversion after conn.close()
\* raises (cars and recent-drives return the rows as they were fetched).
return(t) ==
    /\ threads[t].pc = "closed"
    /\ \/ threads[t].endpoint # "/api/driving-journal"
       \/ store.fault = "process"
       \/ Len(threads[t].draws) = Cardinality(threads[t].rows)
    /\ threads' = [threads EXCEPT ![t] =
                      IF /\ store.fault = "process"
                         /\ @.endpoint \notin {"/api/health", "/api/cars",
                                               "/api/recent-drives"}
                         /\ @.rows # {}
                      THEN [@ EXCEPT !.pc = "responded", !.status = 500]
                      ELSE [@ EXCEPT !.pc = "responded", !.status = 200]]
    /\ UNCHANGED <<generator, connections, journalVars, dateVars, serviceVars>>

\* The response has gone out and the thread is free; a connection the
\* handler left open is held by nothing any more.
finish(t) ==
    /\ threads[t].pc = "responded"
    /\ threads' = [threads EXCEPT ![t] = NoThread]
    /\ connections' = connections + (IF threads[t].conn THEN 1 ELSE 0)
    /\ UNCHANGED <<generator, journalVars, dateVars, serviceVars>>

\* The interpreter finalises a connection that nothing holds, which closes
\* it.
finalize ==
    /\ connections > 0
    /\ connections' = connections - 1
    /\ UNCHANGED <<threads, generator, journalVars, dateVars, serviceVars>>

WorkerInit ==
    /\ pc = "idle"
    /\ request = NoRequest
    /\ drives = <<>>
    /\ rate_per_mil = DefaultRate
    /\ days = EmptyDays
    /\ day_queue = <<>>
    /\ journal_entries = <<>>
    /\ total_mil = 0
    /\ total_cost = 0
    /\ response = NoResponse
    /\ today = <<2024, 6, 1>>
    /\ pads_year = TRUE
    /\ date_str = <<>>
    /\ parsed = <<>>
    /\ resolver = "called"
    /\ store \in [fault : Faults, drives : {2}, telemetry : {TRUE}]
    /\ wire = NoWire
    /\ tool = NoTool
    /\ output = NoOutput
    /\ threads = [t \in Threads |-> NoThread]
    /\ generator = 0
    /\ connections = 0

WorkerNext ==
    \/ \E t \in Threads : handle(t)
    \/ \E t \in Threads : get_db_connection(t)
    \/ \E t \in Threads : cur_execute(t)
    \/ \E t \in Threads : conn_close(t)
    \/ \E t \in Threads : random_uniform(t)
    \/ \E t \in Threads : return(t)
    \/ \E t \in Threads : finish(t)
    \/ finalize

WorkerSpec == WorkerInit /\ [][WorkerNext]_vars

(***************************************************************************)
(* Claims about the handlers in their threads.                             *)
(***************************************************************************)

\* The queries of the request of thread t have selected their rows, and
\* its endpoint takes a car_id.
HasSelected(t) ==
    /\ threads[t].endpoint \notin {"", "/api/health", "/api/cars"}
    /\ \/ threads[t].pc \in {"fetched", "closed"}
       \/ threads[t].pc = "responded" /\ threads[t].status = 200

\* C22: requests are handled independently and statelessly: no mutable
\* state is shared between requests, so for any interleaving of concurrent
\* requests each response is the one the same request would get if it ran
\* alone against the same store contents and the same sequence of random
\* draws; the padding draws of the journal touch no state shared with
\* another request.  Alone, a journal request gets the draws that follow
\* the ones made before it arrived, one after the other.
C22_ResponseAsIfAlone ==
    \A t \in Threads :
       (threads[t].pc = "responded" /\ threads[t].status = 200)
         => /\ threads[t].endpoint # "/api/health"
               => threads[t].rows = Selected(threads[t].endpoint, threads[t].car_id)
            /\ threads[t].draws
                  = [i \in 1..Len(threads[t].draws) |-> threads[t].seed + i]

\* What the code does: the rows of a response are those its request selects
\* from the store, whatever the other thread does; the draws of a journal
\* come from the one generator of the process, each draw goes to one
\* request, and a request gets later draws than it would alone when the
\* other thread draws in between.
C22_OnlyTheGeneratorIsShared ==
    /\ \A t \in Threads :
          (threads[t].pc = "responded" /\ threads[t].status = 200)
            => /\ threads[t].endpoint # "/api/health"
                  => threads[t].rows
                        = Selected(threads[t].endpoint, threads[t].car_id)
               /\ threads[t].endpoint = "/api/driving-journal"
                  => Len(threads[t].draws) = Cardinality(threads[t].rows)
               /\ \A i \in DOMAIN threads[t].draws :
                     /\ threads[t].seed + i <= threads[t].draws[i]
                     /\ threads[t].draws[i] <= generator
                     /\ \A j \in DOMAIN threads[t].draws :
                           i < j => threads[t].draws[i] < threads[t].draws[j]
    /\ \A t \in Threads, u \in Threads :
          t # u => \A i \in DOMAIN threads[t].draws, j \in DOMAIN threads[u].draws :
                      threads[t].draws[i] # threads[u].draws[j]

\* C24: for every endpoint that accepts car_id, a request with car_id=0 is
\* treated as "no filter": against the same store it selects exactly the
\* rows, over all vehicles, that the same request selects with car_id
\* omitted, whereas a non-zero car_id restricts the rows to that vehicle.
C24_CarIdZeroIsNoFilter ==
    /\ \A t \in Threads :
          HasSelected(t)
            => IF threads[t].car_id \in {NULL, 0}
               THEN /\ threads[t].rows = RowsOf(threads[t].endpoint)
                    /\ { r.car : r \in threads[t].rows } = {1, 2}
               ELSE threads[t].rows
                       = { r \in RowsOf(threads[t].endpoint) :
                              r.car = threads[t].car_id }
    /\ \A t \in Threads, u \in Threads :
          (/\ HasSelected(t) /\ HasSelected(u)
           /\ threads[t].endpoint = threads[u].endpoint
           /\ threads[t].car_id = 0 /\ threads[u].car_id = NULL)
            => threads[t].rows = threads[u].rows

\* Two requests for the total distance, one with car_id=0 and one without
\* car_id, have both selected the drives and positions of both cars.
C24_Witness ==
    /\ threads["a"].pc = "fetched"
    /\ threads["a"].endpoint = "/api/total-distance"
    /\ threads["a"].car_id = 0
    /\ threads["b"].pc = "fetched"
    /\ threads["b"].endpoint = "/api/total-distance"
    /\ threads["b"].car_id = NULL
    /\ Cardinality(threads["a"].rows) = 4
    /\ threads["a"].rows = threads["b"].rows

\* A request for the journal of car 1 has selected the one drive of car 1.
C24_WitnessOneCar ==
    /\ threads["a"].pc = "closed"
    /\ threads["a"].endpoint = "/api/driving-journal"
    /\ threads["a"].car_id = 1
    /\ threads["a"].rows = {[table |-> "drives", car |-> 1, id |-> 2]}

\* C25: every store connection an endpoint opens is closed before the
\* response of the request is returned, be it the payload, the no-data
\* payload or an HTTP error, also where a query or the processing of the
\* rows raises after the connection was opened; so no sequence of failing
\* requests accumulates open connections.
C25_ClosedBeforeResponse ==
    /\ \A t \in Threads : threads[t].pc = "responded" => ~threads[t].conn
    /\ connections = 0

\* What the code does: the connection is closed before a payload is
\* returned and when get_db_connection itself failed none was opened; it is
\* open at the response exactly when a query raised, or when a conversion
\* raised in one of the two handlers that convert before conn.close().
C25_ClosedUnlessTryBlockLeftEarly ==
    \A t \in Threads :
       threads[t].pc = "responded"
         => /\ threads[t].status = 200 => ~threads[t].conn
            /\ store.fault = "connect" => ~threads[t].conn
            /\ threads[t].conn
                  <=> \/ store.fault = "execute" /\ threads[t].endpoint # "/api/health"
                      \/ /\ store.fault = "process"
                         /\ threads[t].endpoint
                               \in {"/api/battery-health", "/api/drives-by-date"}
                         /\ threads[t].rows # {}

====
